---- MODULE Spec2Model ----
(***************************************************************************)
(* Capture-session runtime of audio_capture_library (windows/API).         *)
(*                                                                         *)
(* One AudioCaptureSession with its AudioStreamMultiplexer, the            *)
(* StreamingAudioRecorder it creates on each start(), and two sinks:       *)
(*   "A"  a CallbackOutput(use_thread=False), whose handler may raise;     *)
(*   "B"  a StreamOutput, backed by an AudioBufferQueue whose asyncio      *)
(*        queue has room for QueueSize items.                              *)
(*                                                                         *)
(* Threads.  The session API runs as tasks of the caller's event loop:     *)
(* `running` is the task that holds that loop; a task gives the loop up    *)
(* only where the code really suspends (the put() of a full asyncio queue  *)
(* in AudioBufferQueue.finish) and at `await start_streaming()`, which     *)
(* opens the device.  The audio callback thread hands every buffer to the  *)
(* recorder's own delegate loop (run_coroutine_threadsafe); `ready[g]` is  *)
(* the FIFO of tasks of the delegate loop of the g-th recorder.  Steps of  *)
(* different threads interleave freely.                                    *)
(***************************************************************************)
EXTENDS Integers, Sequences, FiniteSets, TLC

Sinks == {"A", "B"}
Tasks == {"t1", "t2"}
Observers == {"o1", "o2"}

\* Bounds of the model.
MaxBuffers == 2
MaxStarts == 2
MaxCalls == 4
QueueSize == 1
MaxCapacity == 2
MaxEnqueues == 4
MaxPackets == 2
MaxServerStarts == 1
MaxSetFormats == 1
MaxChannels == 2
MaxFrames == 2
MaxWrites == 3
MaxConfigures == 2
MaxCollBuffers == 2
MaxAdds == 4
MaxPrioSize == 2
MaxPEnqueues == 3
MaxRingCapacity == 3
MaxRingEnqueues == 4
MaxSessions == 3
MaxMixFrames == 3

\* add_buffer prints its debug lines for the first buffers added
DebugBuffers == 3

Buffers == 1..MaxBuffers
Gens == 1..MaxStarts

States == {"Idle", "Starting", "Active", "Paused", "Stopping", "Stopped", "Error"}

VARIABLES
    state,          \* BaseAudioSession._state
    sessOutputs,    \* AudioCaptureSession._outputs (a list, duplicates possible)
    muxOutputs,     \* AudioStreamMultiplexer._outputs
    isPaused,       \* AudioStreamMultiplexer._is_paused
    isRecording,    \* StreamingAudioRecorder._is_recording of session._recorder
    gen,            \* number of recorders created so far
    ready,          \* per recorder: FIFO of the delegate loop's ready tasks
    nBuf,           \* buffers emitted by the audio callback so far
    tasks,          \* the API calls of the caller's loop and where each stands
    running,        \* the task holding the caller's event loop, or "none"
    nCalls,         \* API calls accepted so far
    last,           \* the call that ended last and how it ended
    configured,     \* per sink: _is_configured
    sq,             \* items in the StreamOutput queue's asyncio.Queue
    sqFinished,     \* AudioBufferQueue._is_finished of the StreamOutput
    consumer,       \* the reader of StreamOutput.buffer_stream: "idle" | "waiting"
    observers,      \* registered state observers, in registration order
    notified,       \* per observer: the last state it was called with
    handlerSet,     \* BaseAudioSession._error_handler is set
    handlerCalls,   \* calls of the error handler
    configureCalls, \* per sink: calls of configure()
    finishCalls,    \* per sink: calls of finish()
    processCalls,   \* the process() calls made: <<sink, buffer, outcome>>
    lateProcess,    \* sinks on which process() was called after finish()
    fate,           \* per buffer: pending, dropped by the pause gate, or dispatched
                    \* to the snapshot `snap` of the multiplexer's sinks
    arrival,        \* per buffer: `window` when the buffer reached the multiplexer
    bufGen,         \* per buffer: the recorder that emitted it (0: not emitted yet)
    handleErrorCalls, \* the handle_error() calls made on sinks: <<sink, buffer>>
    window,         \* "paused": pause() returned, resume() not called since;
                    \* "resumed": resume() returned, pause() not called since
    \* an AudioBufferQueue used on its own
    qCap,           \* max_size (0: not constructed yet)
    qBuffers,       \* _buffers, the deque
    qAsync,         \* items in _queue, the asyncio.Queue(maxsize=max_size)
    qDropped,       \* _statistics.dropped_buffers
    qFinished,      \* _is_finished
    qPutPending,    \* finish() is suspended in `await self._queue.put(None)`
    qReader,        \* the reader of stream(): "idle" | "waiting"
    nEnq,           \* enqueue() calls made; the k-th call enqueues the item k
    qOut,           \* the items dequeue() returned, in order
    qMixed,         \* an enqueue() was made after a dequeue()
    qCleared,       \* clear() was called
    qStats,         \* _statistics: current_size, peak_size, total_enqueued, total_dequeued
    qReset,         \* reset_statistics() was called
    \* a NetworkAudioServer and the connections made to it
    srvRunning,     \* _is_running
    srvListening,   \* _server is open and accepts connections
    srvFormat,      \* self.format: "none" or "f"
    srvClients,     \* _clients, the writers of the connections being served
    lockQ,          \* _clients_lock: its holder, then those waiting for it in order
    wire,           \* per connection: the packets written to its writer, in order
    broken,         \* per connection: lost, so that write/drain raise
    wclosed,        \* per connection: who closed its writer, or "open"
    hpc,            \* per connection: where its _handle_client task stands
    ops,            \* the server calls in progress: broadcast_buffer on the delivery
                    \* loop ("bc"), start/set_format/stop of the owner ("ctl")
    nPkt,           \* audio packets given to broadcast_buffer so far
    nSrvStarts,     \* start() calls made
    nSetFormats,    \* set_format() calls made
    bcLog,          \* per audio packet: how broadcast_buffer ended, the connections
                    \* it wrote to and those whose write failed
    stopAt,         \* the connections in _clients when the last stop() was called
    stopDone,       \* the last stop() has returned and no start() since
    cur,            \* the task running on the server's loop between two suspensions
    \* NetworkAudioClient and the connection it reads
    cfmt,           \* the AudioFormat of the stream
    cstream,        \* the packets written to the connection, in order
    cpc,            \* where the client is: init, connected, failed, ended
    rpos,           \* packets of cstream the client has read
    isConnected,    \* NetworkAudioClient._is_connected
    connErr,        \* the exception class connect() raised ("none": it returned)
    yielded,        \* frame counts of the buffers receive_audio has yielded
    desync,         \* the client's reads no longer fall on packet boundaries
    connAt,         \* the packets written to the connection when connect() was called
    \* FileOutput and its WavFileWriter
    fConfigured,    \* FileOutput._is_configured
    fWriter,        \* FileOutput._writer is set
    fGen,           \* the WavFileWriter objects created so far (the last is _writer)
    wIsWriting,     \* WavFileWriter._is_writing of the current writer
    fOpens,         \* times the file was opened 'wb' (created or truncated)
    fWrites,        \* buffers written to the file by writeframes, over all openings
    fClosed,        \* a finish() has closed the file
    fLock,          \* the task holding FileOutput._write_lock ("none": free)
    fBlocked,       \* the task in which the event-loop thread waits for fLock
    fpc,            \* per task: idle, await (the executor), blocked (on fLock)
    fjob,           \* per task: its _write_sync job in the executor
    fres,           \* per task: how its last process() call ended
    nProc,          \* process() calls made
    fErrAt,         \* fWrites when a write of the current writer met an I/O error (-1: none)
    \* ConvertingBufferCollector
    cMax,           \* max_buffers (0: no collector yet)
    cBuffers,       \* _buffers: the converted buffers, as [id, frames]
    cAdded,         \* _total_buffers_added
    cErrors,        \* _conversion_errors
    cCached,        \* _cached_total_frames
    nAdd,           \* add_buffer calls made; the n-th buffer has id n
    cConverted,     \* ids of the buffers whose conversion succeeded, in order
    cLast,          \* the last add_buffer call: conversion failed, exception raised
    \* PriorityAudioBufferQueue
    pqMax,          \* max_size (0: no queue yet)
    pqBuffers,      \* _buffers: the held items, as [id, prio]
    pqOut,          \* what was put on the asyncio queue so far (id 0: the None of finish)
    ppc,            \* per enqueuing thread: where its enqueue() call stands
    nPEnq,          \* items inserted so far; the n-th inserted item has id n
    pqFinished,     \* _is_finished
    pqEvicted,      \* the items removed on overflow
    pqReader,       \* where the consumer of stream() stands
    pqRead,         \* how many items of pqOut stream() has taken off the asyncio queue
    \* CircularAudioBufferQueue
    rCap,           \* capacity (0: no queue yet)
    rSlots,         \* _buffers: slot -> the value it holds (0: None)
    rHead,          \* _head
    rTail,          \* _tail
    nREnq,          \* try_enqueue calls made; the n-th is made with value n
    rAccepted,      \* the values whose try_enqueue returned True, in order
    rReturned,      \* the values try_dequeue returned, in order
    rLast,          \* the last call and what it returned
    rCleared,       \* clear() was called
    \* AudioCaptureKit
    kSessions,      \* the sessions created so far: their kind and _state
    kCapture,       \* keys of _capture_sessions
    kPlayback,      \* keys of _playback_sessions
    kpc,            \* where cleanup() stands
    kTodo,          \* cleanup(): what is left of the list it iterates over
    kAtBegin,       \* the state of each session when the last cleanup() began
    kRaised,        \* the sessions whose stop() raised in the last cleanup()
    \* AudioFormatNegotiator: the last negotiate / conversion_complexity calls
    negSrc,         \* source
    negDst,         \* destination
    negPrio,        \* preferences.priority
    negResult,      \* what negotiate returned
    negComplexity,  \* what conversion_complexity returned, in tenths
    \* InteractiveRecordingMixer.mix_audio_buffers
    mixIn,          \* the input collector's buffers, each a sequence of samples
    mixOut,         \* the output collector's buffers
    mixResult,      \* the array mix_audio_buffers returned
    mixDone         \* mix_audio_buffers was called

sessionVars == <<state, sessOutputs, muxOutputs, isPaused, isRecording, gen, ready, nBuf,
          tasks, running, nCalls, last, configured, sq, sqFinished, consumer,
          observers, notified, handlerSet, handlerCalls,
          configureCalls, finishCalls, processCalls, lateProcess, fate, arrival,
          bufGen, handleErrorCalls, window>>

queueVars == <<qCap, qBuffers, qAsync, qDropped, qFinished, qPutPending, qReader,
               nEnq, qOut, qMixed, qCleared, qStats, qReset>>

netVars == <<srvRunning, srvListening, srvFormat, srvClients, lockQ, wire, broken,
             wclosed, hpc, ops, nPkt, nSrvStarts, nSetFormats, bcLog, stopAt, stopDone, cur>>

cliVars == <<cfmt, cstream, cpc, rpos, isConnected, connErr, yielded, desync, connAt>>

\* the components that are used on their own, outside a session
fileVars == <<fConfigured, fWriter, fGen, wIsWriting, fOpens, fWrites, fClosed, fLock,
              fBlocked, fpc, fjob, fres, nProc, fErrAt>>

collVars == <<cMax, cBuffers, cAdded, cErrors, cCached, nAdd, cConverted, cLast>>

prioVars == <<pqMax, pqBuffers, pqOut, ppc, nPEnq, pqFinished, pqEvicted, pqReader, pqRead>>

ringVars == <<rCap, rSlots, rHead, rTail, nREnq, rAccepted, rReturned, rLast, rCleared>>

kitVars == <<kSessions, kCapture, kPlayback, kpc, kTodo, kAtBegin, kRaised>>

negVars == <<negSrc, negDst, negPrio, negResult, negComplexity>>

mixVars == <<mixIn, mixOut, mixResult, mixDone>>

\* the components that are used on their own, outside a session
compVars == <<queueVars, netVars, cliVars, fileVars, collVars, prioVars, ringVars, kitVars, negVars, mixVars>>

\* what the actions of one component leave alone
othersOfQueue == <<sessionVars, netVars, cliVars, fileVars, collVars, prioVars, ringVars, kitVars, negVars, mixVars>>
othersOfServer == <<sessionVars, queueVars, cliVars, fileVars, collVars, prioVars, ringVars, kitVars, negVars, mixVars>>
othersOfClient == <<sessionVars, queueVars, netVars, fileVars, collVars, prioVars, ringVars, kitVars, negVars, mixVars>>
othersOfFile == <<sessionVars, queueVars, netVars, cliVars, collVars, prioVars, ringVars, kitVars, negVars, mixVars>>
othersOfCollector == <<sessionVars, queueVars, netVars, cliVars, fileVars, prioVars, ringVars, kitVars, negVars, mixVars>>
othersOfPriority == <<sessionVars, queueVars, netVars, cliVars, fileVars, collVars, ringVars, kitVars, negVars, mixVars>>
othersOfRing == <<sessionVars, queueVars, netVars, cliVars, fileVars, collVars, prioVars, kitVars, negVars, mixVars>>
othersOfKit == <<sessionVars, queueVars, netVars, cliVars, fileVars, collVars, prioVars, ringVars, negVars, mixVars>>
othersOfNegotiator == <<sessionVars, queueVars, netVars, cliVars, fileVars, collVars, prioVars, ringVars, kitVars, mixVars>>
othersOfMixer == <<sessionVars, queueVars, netVars, cliVars, fileVars, collVars, prioVars, ringVars, kitVars, negVars>>

vars == <<sessionVars, compVars>>

sessVars == <<state, sessOutputs, muxOutputs, isPaused, isRecording, gen>>
sinkVars == <<configured, sq, sqFinished, configureCalls, finishCalls>>
obsVars == <<observers, notified, handlerSet, handlerCalls>>
deliveryVars == <<ready, nBuf, processCalls, lateProcess, fate, arrival, bufGen,
                  handleErrorCalls>>

Kind(s) == IF s = "A" THEN "callback" ELSE "stream"

Range(q) == {q[i] : i \in 1..Len(q)}

Contains(q, x) == \E i \in 1..Len(q) : q[i] = x

\* list.remove(x): drops the first occurrence
RemoveFirst(q, x) ==
    IF ~Contains(q, x) THEN q
    ELSE LET i == CHOOSE j \in 1..Len(q) : q[j] = x /\ \A k \in 1..(j-1) : q[k] # x
         IN SubSeq(q, 1, i-1) \o SubSeq(q, i+1, Len(q))

ZeroCount == [s \in Sinks |-> 0]

\* a call of the session API: `from` is the session state it was made in, `base`
\* and `att` the finish() counts and the attached sinks when a stop() began
IdleTask == [op |-> "none", pc |-> "idle", sink |-> "none", from |-> "none", rem |-> <<>>,
             idx |-> 0, ret |-> "none", base |-> ZeroCount, att |-> {}]

\* how a call ends: it returns, raises InvalidStateError, or raises another error
FinalPcs == {"returned", "invalid_state", "raised"}

NoCall == [op |-> "none", res |-> "none", sink |-> "none", from |-> "none",
           base |-> ZeroCount, att |-> {}]

Ended(rec) == [op |-> rec.op, res |-> rec.pc, sink |-> rec.sink, from |-> rec.from,
               base |-> rec.base, att |-> rec.att]

TaskNo(t) == IF t = "t1" THEN 1 ELSE 2

\* The source states each call accepts.  (The ...FromError sets are faulty
\* variants, a start or stop that would also run on a failed session; the
\* properties below must tell them from the code's sets.)
StartAcceptsFromError == {"Idle", "Stopped", "Error"}
StartAccepts == {"Idle", "Stopped"}

StopAcceptsFromError == {"Active", "Paused", "Error"}
StopAccepts == {"Active", "Paused"}

PauseAccepts == {"Active"}

ResumeAccepts == {"Paused"}

AddAccepts == {"Active", "Paused"}

\* update_state: every registered observer is called with the new state;
\* an observer that raises is caught and the next one is still called.
\* (NotifyUntilRaise is the faulty variant without the try/except in the loop.)
NotifyUntilRaise(obs, ntf, new, raising) ==
    [o \in Observers |->
        IF \E i \in 1..Len(obs) : obs[i] = o /\ \A k \in 1..(i-1) : obs[k] \notin raising
        THEN new ELSE ntf[o]]
NotifyObservers(obs, ntf, new, raising) ==
    [o \in Observers |-> IF o \in Range(obs) THEN new ELSE ntf[o]]

\* AudioStreamMultiplexer.audio_streamer_did_receive: a paused multiplexer returns
\* (NeverDrops is the faulty variant without the pause gate)
NeverDrops(paused) == FALSE
DropsBuffer(paused) == paused

ProcItems(outs, b) == [i \in 1..Len(outs) |-> [k |-> "proc", b |-> b, s |-> outs[i]]]

\* what is left of the delegate loop's queue after one _process_output ran: the
\* exception is caught there, so the other sinks' tasks stay
\* (AfterProcessAbort is the faulty variant where a failure cancels them)
AfterProcessAbort(q, b, failed) ==
    IF failed THEN SelectSeq(Tail(q), LAMBDA it : ~(it.k = "proc" /\ it.b = b))
    ELSE Tail(q)
AfterProcess(q, b, failed) == Tail(q)

\* _process_audio_data: run_coroutine_threadsafe(_notify_delegates_buffer(buffer),
\* loop) puts the task at the end of the delegate loop's ready queue
\* (HandOffFront is the faulty variant that would run the newest buffer first)
HandOffFront(q, item) == <<item>> \o q
HandOff(q, item) == Append(q, item)

\* the connections made to the NetworkAudioServer, and its callers
Conns == {"c1", "c2"}
OpTasks == {"bc", "ctl"}
Packets == 1..MaxPackets

IdleOp == [op |-> "none", pc |-> "idle", data |-> <<"none", 0>>, todo |-> {}, failed |-> {}]

NoBroadcast == [res |-> "none", sent |-> {}, failed |-> {}]

\* the tasks that drive one FileOutput, their executor job and call result
Workers == {"w1", "w2"}

\* the sessions an AudioCaptureKit creates; kind "none": not created yet
SessionIds == 1..MaxSessions
NoSession == [kind |-> "none", state |-> "none"]

\* the threads that call enqueue() on one priority queue
Enqueuers == {"e1", "e2", "e3"}
NoJob == [st |-> "none", gen |-> 0, io |-> "none", late |-> FALSE]
NoResult == [res |-> "none", io |-> "none", late |-> FALSE]

\* no AudioFormat yet
\* QueueStatistics(): every counter 0 (dropped_buffers is qDropped)
NoStatistics == [current_size |-> 0, peak_size |-> 0, total_enqueued |-> 0,
                 total_dequeued |-> 0]

\* AudioFormat(...): __post_init__ makes a 32-bit format a float format
MakeFormat(rate, channels, bits, interleaved, float) ==
    [sample_rate |-> rate, channel_count |-> channels, bit_depth |-> bits,
     is_interleaved |-> interleaved, is_float |-> (float \/ bits = 32)]

NoAudioFormat == MakeFormat(0, 0, 0, FALSE, FALSE)

NoFormat == [bits |-> 0, float |-> FALSE, ch |-> 0]

Init ==
    /\ state = "Idle"
    /\ sessOutputs = <<>>
    /\ muxOutputs = <<>>
    /\ isPaused = FALSE
    /\ isRecording = FALSE
    /\ gen = 0
    /\ ready = [g \in Gens |-> <<>>]
    /\ nBuf = 0
    /\ tasks = [t \in Tasks |-> IdleTask]
    /\ running = "none"
    /\ nCalls = 0
    /\ last = NoCall
    /\ configured = [s \in Sinks |-> FALSE]
    /\ sq = 0
    /\ sqFinished = FALSE
    /\ consumer = "idle"
    /\ observers = <<>>
    /\ notified = [o \in Observers |-> "none"]
    /\ handlerSet = FALSE
    /\ handlerCalls = 0
    /\ configureCalls = ZeroCount
    /\ finishCalls = ZeroCount
    /\ processCalls = {}
    /\ lateProcess = {}
    /\ fate = [b \in Buffers |-> [st |-> "pending", snap |-> <<>>]]
    /\ arrival = [b \in Buffers |-> "none"]
    /\ bufGen = [b \in Buffers |-> 0]
    /\ handleErrorCalls = {}
    /\ window = "none"
    /\ qCap = 0
    /\ qBuffers = <<>>
    /\ qAsync = 0
    /\ qDropped = 0
    /\ qFinished = FALSE
    /\ qPutPending = FALSE
    /\ qReader = "idle"
    /\ nEnq = 0
    /\ qOut = <<>>
    /\ qMixed = FALSE
    /\ qCleared = FALSE
    /\ qStats = NoStatistics
    /\ qReset = FALSE
    /\ srvRunning = FALSE
    /\ srvListening = FALSE
    /\ srvFormat = "none"
    /\ srvClients = {}
    /\ lockQ = <<>>
    /\ wire = [c \in Conns |-> <<>>]
    /\ broken = [c \in Conns |-> FALSE]
    /\ wclosed = [c \in Conns |-> "open"]
    /\ hpc = [c \in Conns |-> "none"]
    /\ ops = [u \in OpTasks |-> IdleOp]
    /\ nPkt = 0
    /\ nSrvStarts = 0
    /\ nSetFormats = 0
    /\ bcLog = [n \in Packets |-> NoBroadcast]
    /\ stopAt = {}
    /\ stopDone = FALSE
    /\ cur = "none"
    /\ cfmt = NoFormat
    /\ cstream = <<>>
    /\ cpc = "init"
    /\ rpos = 0
    /\ isConnected = FALSE
    /\ connErr = "none"
    /\ yielded = <<>>
    /\ desync = FALSE
    /\ connAt = 0
    /\ fConfigured = FALSE
    /\ fWriter = FALSE
    /\ fGen = 0
    /\ wIsWriting = FALSE
    /\ fOpens = 0
    /\ fWrites = 0
    /\ fClosed = FALSE
    /\ fLock = "none"
    /\ fBlocked = "none"
    /\ fpc = [t \in Workers |-> "idle"]
    /\ fjob = [t \in Workers |-> NoJob]
    /\ fres = [t \in Workers |-> NoResult]
    /\ nProc = 0
    /\ fErrAt = -1
    /\ cMax = 0
    /\ cBuffers = <<>>
    /\ cAdded = 0
    /\ cErrors = 0
    /\ cCached = 0
    /\ nAdd = 0
    /\ cConverted = <<>>
    /\ cLast = [failed |-> FALSE, raised |-> FALSE]
    /\ pqMax = 0
    /\ pqBuffers = <<>>
    /\ pqOut = <<>>
    /\ ppc = [t \in Enqueuers |-> "idle"]
    /\ nPEnq = 0
    /\ pqFinished = FALSE
    /\ pqEvicted = {}
    /\ pqReader = "idle"
    /\ pqRead = 0
    /\ rCap = 0
    /\ rSlots = <<>>
    /\ rHead = 0
    /\ rTail = 0
    /\ nREnq = 0
    /\ rAccepted = <<>>
    /\ rReturned = <<>>
    /\ rLast = [op |-> "none", res |-> 0]
    /\ rCleared = FALSE
    /\ kSessions = [s \in SessionIds |-> NoSession]
    /\ kCapture = {}
    /\ kPlayback = {}
    /\ kpc = "idle"
    /\ kTodo = <<>>
    /\ kAtBegin = [s \in SessionIds |-> "none"]
    /\ kRaised = {}
    /\ negSrc = NoAudioFormat
    /\ negDst = NoAudioFormat
    /\ negPrio = "none"
    /\ negResult = NoAudioFormat
    /\ negComplexity = 0
    /\ mixIn = <<>>
    /\ mixOut = <<>>
    /\ mixResult = <<>>
    /\ mixDone = FALSE

\* a task of the caller's loop may begin a call (the tasks are interchangeable:
\* the first idle one makes it)
CanInvoke(t) ==
    /\ tasks[t].pc = "idle"
    /\ \A u \in Tasks : TaskNo(u) < TaskNo(t) => tasks[u].pc # "idle"
    /\ running = "none"

\* task t proceeds as rec: the call goes on, or has ended and is recorded in `last`
Proceed(t, rec) ==
    IF rec.pc \in FinalPcs
    THEN /\ tasks' = [tasks EXCEPT ![t] = IdleTask]
         /\ last' = Ended(rec)
         /\ running' = "none"
    ELSE /\ tasks' = [tasks EXCEPT ![t] = rec]
         /\ last' = last
         /\ running' = t

\* a task begins a call that is not refused
CanBegin(t) ==
    /\ CanInvoke(t)
    /\ nCalls < MaxCalls
    /\ nCalls' = nCalls + 1

\* asyncio.Queue.put suspends while the queue is full
QueueHasRoom(n) == n < QueueSize

\* `await output.finish()` made by task t; rec is the task once the call has returned.
\* CallbackOutput.finish clears _is_configured.  StreamOutput.finish runs
\* AudioBufferQueue.finish (set _is_finished, await _queue.put(None), clear) and
\* then clears _is_configured; the put suspends the task while the queue is full.
Finish(t, s, rec) ==
    /\ finishCalls' = [finishCalls EXCEPT ![s] = @ + 1]
    /\ IF Kind(s) = "stream"
       THEN /\ sqFinished' = TRUE
            /\ IF QueueHasRoom(sq)
               THEN /\ sq' = sq + 1
                    /\ configured' = [configured EXCEPT ![s] = FALSE]
                    /\ Proceed(t, rec)
               ELSE /\ UNCHANGED <<sq, configured, last>>
                    /\ tasks' = [tasks EXCEPT ![t] =
                                    [rec EXCEPT !.pc = "finish_put", !.ret = rec.pc, !.sink = s]]
                    /\ running' = "none"
       ELSE /\ configured' = [configured EXCEPT ![s] = FALSE]
            /\ UNCHANGED <<sq, sqFinished>>
            /\ Proceed(t, rec)

\* the suspended put(None) goes through once the queue has room
FinishPut(t) ==
    /\ tasks[t].pc = "finish_put"
    /\ running = "none"
    /\ QueueHasRoom(sq)
    /\ sq' = sq + 1
    /\ configured' = [configured EXCEPT ![tasks[t].sink] = FALSE]
    /\ Proceed(t, [tasks[t] EXCEPT !.pc = tasks[t].ret, !.ret = "none"])
    /\ UNCHANGED <<sessVars, obsVars, deliveryVars, nCalls, sqFinished, consumer,
                   configureCalls, finishCalls, window>>
    /\ UNCHANGED compVars
\* AudioCaptureSession.start up to `await self._recorder.start_streaming()`
Start(t) ==
    /\ CanBegin(t)
    /\ state \in StartAccepts
    /\ gen < MaxStarts
    /\ state' = "Starting"
    /\ \E raising \in SUBSET Range(observers) :
          notified' = NotifyObservers(observers, notified, "Starting", raising)
    /\ gen' = gen + 1
    /\ isRecording' = FALSE
    /\ tasks' = [tasks EXCEPT ![t] = [IdleTask EXCEPT !.op = "start", !.pc = "start_wait", !.from = state]]
    /\ running' = "none"
    /\ UNCHANGED <<sessOutputs, muxOutputs, isPaused, last>>
    /\ UNCHANGED <<sinkVars, deliveryVars, consumer, observers, handlerSet, handlerCalls, window>>
    /\ UNCHANGED compVars
\* start_streaming returns or raises; start() moves to Active, or handle_error
\* moves to Error, calls the error handler and the exception is raised again
StartDone(t) ==
    /\ tasks[t].pc = "start_wait"
    /\ running = "none"
    /\ \E ok \in BOOLEAN, raising \in SUBSET Range(observers) :
          IF ok
          THEN /\ isRecording' = TRUE
               /\ state' = "Active"
               /\ notified' = NotifyObservers(observers, notified, "Active", raising)
               /\ Proceed(t, [tasks[t] EXCEPT !.pc = "returned"])
               /\ UNCHANGED handlerCalls
          ELSE /\ state' = "Error"
               /\ notified' = NotifyObservers(observers, notified, "Error", raising)
               /\ handlerCalls' = IF handlerSet THEN handlerCalls + 1 ELSE handlerCalls
               /\ Proceed(t, [tasks[t] EXCEPT !.pc = "raised"])
               /\ UNCHANGED isRecording
    /\ UNCHANGED <<sessOutputs, muxOutputs, isPaused, gen, sinkVars, deliveryVars,
                   nCalls, consumer, observers, handlerSet, window>>
    /\ UNCHANGED compVars
\* AudioCaptureSession.stop up to the first finish(): the state check,
\* update_state(STOPPING), and stop_streaming, which clears _is_recording, stops
\* the stream and has the multiplexer take its snapshot (audio_streamer_did_finish)
Stop(t) ==
    /\ CanBegin(t)
    /\ state \in StopAccepts
    /\ state' = "Stopping"
    /\ \E raising \in SUBSET Range(observers) :
          notified' = NotifyObservers(observers, notified, "Stopping", raising)
    /\ isRecording' = FALSE
    /\ tasks' = [tasks EXCEPT ![t] =
          [IdleTask EXCEPT !.op = "stop",
                           !.from = state,
                           !.pc = IF isRecording THEN "stop_mux" ELSE "stop_sess",
                           !.rem = IF isRecording THEN muxOutputs ELSE <<>>,
                           !.base = finishCalls,
                           !.att = Range(sessOutputs)]]
    /\ running' = t
    /\ UNCHANGED <<sessOutputs, muxOutputs, isPaused, gen, last>>
    /\ UNCHANGED <<sinkVars, deliveryVars, consumer, observers, handlerSet, handlerCalls, window>>
    /\ UNCHANGED compVars
\* AudioStreamMultiplexer.audio_streamer_did_finish: finish() on each sink of the snapshot
StopMuxFinish(t) ==
    /\ tasks[t].pc = "stop_mux"
    /\ running = t
    /\ IF tasks[t].rem = <<>>
       THEN /\ tasks' = [tasks EXCEPT ![t] = [@ EXCEPT !.pc = "stop_sess", !.idx = 0]]
            /\ UNCHANGED <<running, last, sinkVars>>
       ELSE /\ Finish(t, Head(tasks[t].rem), [tasks[t] EXCEPT !.rem = Tail(@)])
            /\ UNCHANGED configureCalls
    /\ UNCHANGED <<sessVars, obsVars, deliveryVars, nCalls, consumer, window>>
    /\ UNCHANGED compVars
\* stop(): `for output in self._outputs: await output.finish()` over the live
\* list, then clear both sink collections and update_state(STOPPED)
StopSessFinish(t) ==
    /\ tasks[t].pc = "stop_sess"
    /\ running = t
    /\ IF tasks[t].idx < Len(sessOutputs)
       THEN /\ Finish(t, sessOutputs[tasks[t].idx + 1], [tasks[t] EXCEPT !.idx = @ + 1])
            /\ UNCHANGED <<sessVars, notified, configureCalls>>
       ELSE /\ sessOutputs' = <<>>
            /\ muxOutputs' = <<>>
            /\ state' = "Stopped"
            /\ \E raising \in SUBSET Range(observers) :
                  notified' = NotifyObservers(observers, notified, "Stopped", raising)
            /\ Proceed(t, [tasks[t] EXCEPT !.pc = "returned"])
            /\ UNCHANGED <<isPaused, isRecording, gen, sinkVars>>
    /\ UNCHANGED <<observers, handlerSet, handlerCalls, deliveryVars, nCalls, consumer, window>>
    /\ UNCHANGED compVars
\* AudioCaptureSession.pause: state check and update_state(PAUSED)
Pause(t) ==
    /\ CanBegin(t)
    /\ state \in PauseAccepts
    /\ state' = "Paused"
    /\ \E raising \in SUBSET Range(observers) :
          notified' = NotifyObservers(observers, notified, "Paused", raising)
    /\ tasks' = [tasks EXCEPT ![t] = [IdleTask EXCEPT !.op = "pause", !.pc = "pause_set", !.from = state]]
    /\ running' = t
    /\ UNCHANGED last
    /\ window' = "none"
    /\ UNCHANGED <<sessOutputs, muxOutputs, isPaused, isRecording, gen, sinkVars,
                   deliveryVars, consumer, observers, handlerSet, handlerCalls>>
    /\ UNCHANGED compVars
\* pause(): set_paused(True), and the call returns
PauseSet(t) ==
    /\ tasks[t].pc = "pause_set"
    /\ running = t
    /\ isPaused' = TRUE
    /\ Proceed(t, [tasks[t] EXCEPT !.pc = "returned"])
    /\ window' = "paused"
    /\ UNCHANGED <<state, sessOutputs, muxOutputs, isRecording, gen, sinkVars, obsVars,
                   deliveryVars, nCalls, consumer>>
    /\ UNCHANGED compVars
\* AudioCaptureSession.resume: state check and set_paused(False)
Resume(t) ==
    /\ CanBegin(t)
    /\ state \in ResumeAccepts
    /\ isPaused' = FALSE
    /\ tasks' = [tasks EXCEPT ![t] = [IdleTask EXCEPT !.op = "resume", !.pc = "resume_upd", !.from = state]]
    /\ running' = t
    /\ UNCHANGED last
    /\ window' = "none"
    /\ UNCHANGED <<state, sessOutputs, muxOutputs, isRecording, gen, sinkVars, obsVars,
                   deliveryVars, consumer>>
    /\ UNCHANGED compVars
\* resume(): update_state(ACTIVE), and the call returns
ResumeUpdate(t) ==
    /\ tasks[t].pc = "resume_upd"
    /\ running = t
    /\ state' = "Active"
    /\ \E raising \in SUBSET Range(observers) :
          notified' = NotifyObservers(observers, notified, "Active", raising)
    /\ Proceed(t, [tasks[t] EXCEPT !.pc = "returned"])
    /\ window' = "resumed"
    /\ UNCHANGED <<sessOutputs, muxOutputs, isPaused, isRecording, gen, sinkVars,
                   observers, handlerSet, handlerCalls, deliveryVars, nCalls, consumer>>
    /\ UNCHANGED compVars
\* AudioStreamMultiplexer.add_output: append unless already there
MuxAdd(outs, s) == IF Contains(outs, s) THEN outs ELSE Append(outs, s)

\* AudioCaptureSession.add_output: state check, output.configure(format),
\* multiplexer.add_output, self._outputs.append
AddOutput(t, s) ==
    /\ CanBegin(t)
    /\ state \in AddAccepts
    /\ configureCalls' = [configureCalls EXCEPT ![s] = @ + 1]
    /\ configured' = [configured EXCEPT ![s] = TRUE]
    /\ muxOutputs' = MuxAdd(muxOutputs, s)
    /\ sessOutputs' = Append(sessOutputs, s)
    /\ Proceed(t, [IdleTask EXCEPT !.op = "add", !.pc = "returned", !.sink = s, !.from = state])
    /\ UNCHANGED <<state, isPaused, isRecording, gen, sq, sqFinished, finishCalls,
                   obsVars, deliveryVars, consumer, window>>
    /\ UNCHANGED compVars
\* AudioCaptureSession.remove_output: multiplexer.remove_output, list.remove, output.finish()
RemoveOutput(t, s) ==
    /\ CanBegin(t)
    /\ muxOutputs' = RemoveFirst(muxOutputs, s)
    /\ sessOutputs' = RemoveFirst(sessOutputs, s)
    /\ Finish(t, s, [IdleTask EXCEPT !.op = "remove", !.pc = "returned", !.sink = s, !.from = state])
    /\ UNCHANGED <<state, isPaused, isRecording, gen, configureCalls,
                   obsVars, deliveryVars, consumer, window>>
    /\ UNCHANGED compVars
\* the states a call is accepted from; remove_output checks none
Accepts(o) ==
    CASE o = "start" -> StartAccepts
      [] o = "stop" -> StopAccepts
      [] o = "pause" -> PauseAccepts
      [] o = "resume" -> ResumeAccepts
      [] o = "add" -> AddAccepts
      [] OTHER -> States

CheckedOps == {"start", "stop", "pause", "resume", "add"}

\* the first statement of start, stop, pause, resume, add_output:
\* `if self._state not in (...): raise InvalidStateError(...)`
RejectedCall(t, o, s) ==
    /\ CanInvoke(t)
    /\ state \notin Accepts(o)
    /\ (o = "add") = (s \in Sinks)
    /\ last' = Ended([IdleTask EXCEPT !.op = o, !.pc = "invalid_state", !.sink = s, !.from = state])
    /\ UNCHANGED <<sessVars, sinkVars, obsVars, deliveryVars, tasks, running, nCalls,
                   consumer, window>>
    /\ UNCHANGED compVars
\* BaseAudioSession.add_state_observer
\* (the observers are interchangeable: the first to register is o1)
AddStateObserver(o) ==
    /\ running = "none"
    /\ o \notin Range(observers)
    /\ o = "o2" => "o1" \in Range(observers)
    /\ observers' = Append(observers, o)
    /\ UNCHANGED <<sessVars, sinkVars, deliveryVars, tasks, running, nCalls, last, consumer,
                   notified, handlerSet, handlerCalls, window>>
    /\ UNCHANGED compVars
\* BaseAudioSession.set_error_handler
SetErrorHandler ==
    /\ running = "none"
    /\ ~handlerSet
    /\ handlerSet' = TRUE
    /\ UNCHANGED <<sessVars, sinkVars, deliveryVars, tasks, running, nCalls, last, consumer,
                   observers, notified, handlerCalls, window>>
    /\ UNCHANGED compVars
\* the audio thread: _sounddevice_callback / _pyaudio_callback return at once unless
\* _is_recording; _process_audio_data wraps the block and hands
\* _notify_delegates_buffer(buffer) to the recorder's delegate loop
AudioCallback ==
    /\ isRecording
    /\ nBuf < MaxBuffers
    /\ nBuf' = nBuf + 1
    /\ ready' = [ready EXCEPT ![gen] = HandOff(@, [k |-> "recv", b |-> nBuf + 1, s |-> "none"])]
    /\ bufGen' = [bufGen EXCEPT ![nBuf + 1] = gen]
    /\ UNCHANGED <<sessVars, sinkVars, obsVars, tasks, running, nCalls, last, consumer,
                   processCalls, lateProcess, fate, arrival, handleErrorCalls, window>>
    /\ UNCHANGED compVars
\* the delegate loop runs _notify_delegates_buffer -> audio_streamer_did_receive:
\* return if paused, else snapshot the sinks and gather one _process_output per sink
MuxReceive(g) ==
    /\ ready[g] # <<>>
    /\ Head(ready[g]).k = "recv"
    /\ LET b == Head(ready[g]).b IN
          /\ arrival' = [arrival EXCEPT ![b] = window]
          /\ IF DropsBuffer(isPaused)
             THEN /\ ready' = [ready EXCEPT ![g] = Tail(@)]
                  /\ fate' = [fate EXCEPT ![b] = [st |-> "dropped", snap |-> <<>>]]
             ELSE /\ ready' = [ready EXCEPT ![g] = Tail(@) \o ProcItems(muxOutputs, b)]
                  /\ fate' = [fate EXCEPT ![b] = [st |-> "dispatched", snap |-> muxOutputs]]
    /\ UNCHANGED <<sessVars, sinkVars, obsVars, tasks, running, nCalls, last, consumer,
                   nBuf, processCalls, lateProcess, bufGen, handleErrorCalls, window>>
    /\ UNCHANGED compVars
\* the delegate loop runs one _process_output(output, buffer): output.process(buffer)
\* with every exception caught and printed; no handle_error() is called (its only
\* caller, audio_streamer_did_encounter_error, is reached through
\* _notify_delegates_error, which nothing calls).  CallbackOutput.process raises unless configured and
\* else calls the handler, which may raise; StreamOutput.process raises unless
\* configured and else enqueues (nothing once finished; put_nowait drops when full)
ProcessOutput(g) ==
    /\ ready[g] # <<>>
    /\ Head(ready[g]).k = "proc"
    /\ LET s == Head(ready[g]).s
           b == Head(ready[g]).b
       IN \E handlerRaises \in BOOLEAN :
            LET failed == ~configured[s] \/ (Kind(s) = "callback" /\ handlerRaises)
            IN /\ Kind(s) = "stream" => ~handlerRaises
               /\ processCalls' = processCalls \cup
                                    {<<s, b, IF failed THEN "raised" ELSE "ok">>}
               /\ lateProcess' = IF finishCalls[s] > 0 THEN lateProcess \cup {s}
                                 ELSE lateProcess
               /\ sq' = IF Kind(s) = "stream" /\ configured[s] /\ ~sqFinished /\ sq < QueueSize
                        THEN sq + 1 ELSE sq
               /\ ready' = [ready EXCEPT ![g] = AfterProcess(@, b, failed)]
               /\ handleErrorCalls' = handleErrorCalls
    /\ UNCHANGED <<sessVars, obsVars, tasks, running, nCalls, last, consumer, nBuf, fate, arrival,
                   bufGen,
                   configured, sqFinished, configureCalls, finishCalls, window>>
    /\ UNCHANGED compVars
\* AudioBufferQueue.stream, read by a task of the caller's loop:
\* `while not self._is_finished: await wait_for(self._queue.get(), 0.1)`
ConsumerPoll ==
    /\ running = "none"
    /\ consumer = "idle"
    /\ ~sqFinished
    /\ consumer' = "waiting"
    /\ UNCHANGED <<sessVars, sinkVars, obsVars, deliveryVars, tasks, running, nCalls, last, window>>
    /\ UNCHANGED compVars
ConsumerGet ==
    /\ running = "none"
    /\ consumer = "waiting"
    /\ sq > 0
    /\ sq' = sq - 1
    /\ consumer' = "idle"
    /\ UNCHANGED <<sessVars, obsVars, deliveryVars, tasks, running, nCalls, last, window,
                   configured, sqFinished, configureCalls, finishCalls>>
    /\ UNCHANGED compVars
ConsumerTimeout ==
    /\ running = "none"
    /\ consumer = "waiting"
    /\ sq = 0
    /\ consumer' = "idle"
    /\ UNCHANGED <<sessVars, sinkVars, obsVars, deliveryVars, tasks, running, nCalls, last, window>>
    /\ UNCHANGED compVars
\* the calls that are not refused, the steps they take, and the reader of the stream
CallSteps ==
    \/ \E t \in Tasks : Start(t)
    \/ \E t \in Tasks : StartDone(t)
    \/ \E t \in Tasks : Stop(t)
    \/ \E t \in Tasks : StopMuxFinish(t)
    \/ \E t \in Tasks : StopSessFinish(t)
    \/ \E t \in Tasks : FinishPut(t)
    \/ \E t \in Tasks : Pause(t)
    \/ \E t \in Tasks : PauseSet(t)
    \/ \E t \in Tasks : Resume(t)
    \/ \E t \in Tasks : ResumeUpdate(t)
    \/ \E t \in Tasks, s \in Sinks : AddOutput(t, s)
    \/ \E t \in Tasks, s \in Sinks : RemoveOutput(t, s)
    \/ ConsumerPoll
    \/ ConsumerGet
    \/ ConsumerTimeout

\* The session with audio flowing.  A refused call changes nothing of the
\* program's state; this specification leaves it to stuttering.
Next ==
    \/ CallSteps
    \/ AudioCallback
    \/ \E g \in Gens : MuxReceive(g)
    \/ \E g \in Gens : ProcessOutput(g)

Spec == Init /\ [][Next]_vars

\* Both event loops run every task that is ready: a call that has begun takes its
\* next step, the delegate loop runs what was handed to it, and a reader waiting
\* in wait_for(get(), 0.1) takes an item or times out.  Nothing obliges a caller
\* to make a call, the device to deliver audio, or anyone to go on reading the
\* StreamOutput's stream.
Fairness ==
    /\ \A t \in Tasks : WF_vars(StartDone(t)) /\ WF_vars(StopMuxFinish(t))
                        /\ WF_vars(StopSessFinish(t)) /\ WF_vars(FinishPut(t))
                        /\ WF_vars(PauseSet(t)) /\ WF_vars(ResumeUpdate(t))
    /\ \A g \in Gens : WF_vars(MuxReceive(g)) /\ WF_vars(ProcessOutput(g))
    /\ WF_vars(ConsumerGet) /\ WF_vars(ConsumerTimeout)

FairSpec == Spec /\ Fairness

\* The session's calls with the refused ones recorded, state observers and the
\* error handler; no audio is delivered.
CallsNext ==
    \/ CallSteps
    \/ \E t \in Tasks, o \in CheckedOps, s \in Sinks \cup {"none"} : RejectedCall(t, o, s)
    \/ \E o \in Observers : AddStateObserver(o)
    \/ SetErrorHandler

CallsSpec == Init /\ [][CallsNext]_vars

(***************************************************************************)
(* AudioBufferQueue used on its own: a deque guarded by a threading lock,   *)
(* and next to it an asyncio.Queue of the same capacity for stream().       *)
(***************************************************************************)

Capacities == 1..MaxCapacity

Min(a, b) == IF a < b THEN a ELSE b

Max(a, b) == IF a > b THEN a ELSE b

\* enqueue on a full deque: `self._buffers.popleft()`
\* (DropNewest is the faulty variant that would pop from the right)
DropNewest(q) == SubSeq(q, 1, Len(q) - 1)
DropOldest(q) == Tail(q)

\* AudioBufferQueue.__init__(max_size)
QNew(k) ==
    /\ qCap = 0
    /\ qCap' = k
    /\ UNCHANGED <<qBuffers, qAsync, qDropped, qFinished, qPutPending, qReader,
                   nEnq, qOut, qMixed, qCleared>>
    /\ UNCHANGED <<qStats, qReset>>
    /\ UNCHANGED othersOfQueue

\* AudioBufferQueue.enqueue: nothing once finished; else count an overflow of the
\* deque and drop its oldest, append, and put_nowait on the asyncio queue, where
\* QueueFull is counted as a drop as well
QEnqueue ==
    /\ qCap > 0
    /\ nEnq < MaxEnqueues
    /\ nEnq' = nEnq + 1
    /\ qMixed' = (qMixed \/ qOut # <<>>)
    /\ IF qFinished
       THEN UNCHANGED <<qBuffers, qAsync, qDropped>>
       ELSE LET over == Len(qBuffers) >= qCap
                full == qAsync >= qCap
            IN /\ qBuffers' = Append(IF over /\ qBuffers # <<>>
                                     THEN DropOldest(qBuffers) ELSE qBuffers, nEnq + 1)
               /\ qAsync' = IF full THEN qAsync ELSE qAsync + 1
               /\ qDropped' = qDropped + (IF over THEN 1 ELSE 0) + (IF full THEN 1 ELSE 0)
    /\ UNCHANGED <<qCap, qFinished, qPutPending, qReader, qOut, qCleared>>
    /\ qStats' = IF qFinished THEN qStats
                 ELSE [qStats EXCEPT !.total_enqueued = @ + 1,
                                     !.current_size = Len(qBuffers'),
                                     !.peak_size = Max(@, Len(qBuffers'))]
    /\ UNCHANGED qReset
    /\ UNCHANGED othersOfQueue

\* AudioBufferQueue.dequeue / dequeue_sync: popleft, or None when empty
QDequeue ==
    /\ qCap > 0
    /\ qBuffers # <<>>
    /\ qOut' = Append(qOut, Head(qBuffers))
    /\ qBuffers' = Tail(qBuffers)
    /\ UNCHANGED <<qCap, qAsync, qDropped, qFinished, qPutPending, qReader, nEnq,
                   qMixed, qCleared>>
    /\ qStats' = [qStats EXCEPT !.total_dequeued = @ + 1, !.current_size = Len(qBuffers')]
    /\ UNCHANGED qReset
    /\ UNCHANGED othersOfQueue

\* AudioBufferQueue.clear: what was queued counts as dropped; both queues emptied
QClear ==
    /\ qCap > 0
    /\ ~qCleared
    /\ qCleared' = TRUE
    /\ qDropped' = qDropped + Len(qBuffers)
    /\ qBuffers' = <<>>
    /\ qAsync' = 0
    /\ UNCHANGED <<qCap, qFinished, qPutPending, qReader, nEnq, qOut, qMixed>>
    /\ qStats' = [qStats EXCEPT !.current_size = 0]
    /\ UNCHANGED qReset
    /\ UNCHANGED othersOfQueue

\* AudioBufferQueue.finish: set _is_finished, `await self._queue.put(None)`, which
\* suspends while the asyncio queue is full, then clear the deque
QFinish ==
    /\ qCap > 0
    /\ ~qFinished
    /\ qFinished' = TRUE
    /\ IF qAsync < qCap
       THEN /\ qAsync' = qAsync + 1
            /\ qBuffers' = <<>>
            /\ UNCHANGED qPutPending
       ELSE /\ qPutPending' = TRUE
            /\ UNCHANGED <<qAsync, qBuffers>>
    /\ UNCHANGED <<qCap, qDropped, qReader, nEnq, qOut, qMixed, qCleared>>
    /\ UNCHANGED <<qStats, qReset>>
    /\ UNCHANGED othersOfQueue

\* the suspended put(None) of finish() goes through
QFinishPut ==
    /\ qPutPending
    /\ qAsync < qCap
    /\ qPutPending' = FALSE
    /\ qAsync' = qAsync + 1
    /\ qBuffers' = <<>>
    /\ UNCHANGED <<qCap, qDropped, qFinished, qReader, nEnq, qOut, qMixed, qCleared>>
    /\ UNCHANGED <<qStats, qReset>>
    /\ UNCHANGED othersOfQueue

\* AudioBufferQueue.stream: `while not self._is_finished: await wait_for(get(), 0.1)`
QStreamPoll ==
    /\ qCap > 0
    /\ qReader = "idle"
    /\ ~qFinished
    /\ qReader' = "waiting"
    /\ UNCHANGED <<qCap, qBuffers, qAsync, qDropped, qFinished, qPutPending,
                   nEnq, qOut, qMixed, qCleared>>
    /\ UNCHANGED <<qStats, qReset>>
    /\ UNCHANGED othersOfQueue

QStreamGet ==
    /\ qReader = "waiting"
    /\ qAsync > 0
    /\ qAsync' = qAsync - 1
    /\ qReader' = "idle"
    /\ UNCHANGED <<qCap, qBuffers, qDropped, qFinished, qPutPending,
                   nEnq, qOut, qMixed, qCleared>>
    /\ UNCHANGED <<qStats, qReset>>
    /\ UNCHANGED othersOfQueue

QStreamTimeout ==
    /\ qReader = "waiting"
    /\ qAsync = 0
    /\ qReader' = "idle"
    /\ UNCHANGED <<qCap, qBuffers, qAsync, qDropped, qFinished, qPutPending,
                   nEnq, qOut, qMixed, qCleared>>
    /\ UNCHANGED <<qStats, qReset>>
    /\ UNCHANGED othersOfQueue

\* AudioBufferQueue.reset_statistics: a new QueueStatistics whose current_size
\* is the length of the deque
QResetStatistics ==
    /\ qCap > 0
    /\ qStats' = [NoStatistics EXCEPT !.current_size = Len(qBuffers)]
    /\ qDropped' = 0
    /\ qReset' = TRUE
    /\ UNCHANGED <<qCap, qBuffers, qAsync, qFinished, qPutPending, qReader, nEnq, qOut,
                   qMixed, qCleared>>
    /\ UNCHANGED othersOfQueue

QueueNext ==
    \/ \E k \in Capacities : QNew(k)
    \/ QEnqueue
    \/ QDequeue
    \/ QClear
    \/ QFinish
    \/ QFinishPut
    \/ QStreamPoll
    \/ QStreamGet
    \/ QStreamTimeout
    \/ QResetStatistics

QueueSpec == Init /\ [][QueueNext]_vars

(***************************************************************************)
(* NetworkAudioServer.  The owner starts, reconfigures and stops the server  *)
(* on its own loop, where the connection handlers also run; NetworkOutput    *)
(* calls broadcast_buffer from the recorder's delegate loop.  _clients_lock  *)
(* serves its waiters in order.  A task is suspended at drain(),             *)
(* wait_closed() and while it waits for the lock.                            *)
(***************************************************************************)

Header == <<"H", 0>>
EndPacket == <<"E", 0>>
Audio(n) == <<"A", n>>

Holds(x) == lockQ # <<>> /\ Head(lockQ) = x

\* what _broadcast_data still has to write to after a write to one client raised:
\* the exception is caught inside the loop, which goes on
\* (AbortOnFailure is the faulty variant with the try around the whole loop)
AbortOnFailure(todo) == {}
AfterWriteFailure(todo) == todo

\* the server's event loop runs one task at a time: task x can take a step when
\* no task is between two suspension points, or x itself is
OnLoop(x) == cur \in {"none", x}

\* asking for self._clients_lock, the queue of the lock being q: a free lock
\* with nobody waiting is taken without suspending
Uncontended(q, x) == IF q = <<>> THEN x ELSE "none"

\* a client connects: the server starts _handle_client, which asks for the lock
\* (connections are numbered in the order they are made)
HConnect(c) ==
    /\ cur = "none"
    /\ srvListening
    /\ hpc[c] = "none"
    /\ c = "c2" => hpc["c1"] # "none"
    /\ hpc' = [hpc EXCEPT ![c] = "add"]
    /\ lockQ' = Append(lockQ, c)
    /\ cur' = Uncontended(lockQ, c)
    /\ UNCHANGED <<srvRunning, srvListening, srvFormat, srvClients, wire, broken, wclosed,
                   ops, nPkt, nSrvStarts, nSetFormats, bcLog, stopAt, stopDone>>
    /\ UNCHANGED othersOfServer

\* _handle_client: `async with self._clients_lock: self._clients.add(writer)`
HAdd(c) ==
    /\ OnLoop(c)
    /\ hpc[c] = "add"
    /\ Holds(c)
    /\ srvClients' = srvClients \cup {c}
    /\ lockQ' = Tail(lockQ)
    /\ hpc' = [hpc EXCEPT ![c] = "header"]
    /\ cur' = c
    /\ UNCHANGED <<srvRunning, srvListening, srvFormat, wire, broken, wclosed,
                   ops, nPkt, nSrvStarts, nSetFormats, bcLog, stopAt, stopDone>>
    /\ UNCHANGED othersOfServer

\* _handle_client: `if self.format:` write the header and drain, then wait for
\* bytes from the client; an exception ends the handler through its finally
HHeader(c) ==
    /\ OnLoop(c)
    /\ hpc[c] = "header"
    /\ IF srvFormat = "none"
       THEN /\ hpc' = [hpc EXCEPT ![c] = "serve"]
            /\ cur' = "none"
            /\ UNCHANGED <<wire, lockQ>>
       ELSE IF broken[c]
            THEN /\ hpc' = [hpc EXCEPT ![c] = "remove"]
                 /\ lockQ' = Append(lockQ, c)
                 /\ cur' = Uncontended(lockQ, c)
                 /\ UNCHANGED wire
            ELSE /\ wire' = [wire EXCEPT ![c] = Append(@, Header)]
                 /\ hpc' = [hpc EXCEPT ![c] = "serve"]
                 /\ cur' = "none"
                 /\ UNCHANGED lockQ
    /\ UNCHANGED <<srvRunning, srvListening, srvFormat, srvClients, broken, wclosed,
                   ops, nPkt, nSrvStarts, nSetFormats, bcLog, stopAt, stopDone>>
    /\ UNCHANGED othersOfServer

\* the peer goes away
ClientDrop(c) ==
    /\ cur = "none"
    /\ hpc[c] \in {"add", "serve"}
    /\ ~broken[c]
    /\ broken' = [broken EXCEPT ![c] = TRUE]
    /\ UNCHANGED <<srvRunning, srvListening, srvFormat, srvClients, lockQ, wire, wclosed,
                   hpc, ops, nPkt, nSrvStarts, nSetFormats, bcLog, stopAt, stopDone, cur>>
    /\ UNCHANGED othersOfServer

\* _handle_client: read() returns b'' or raises: leave the loop, and in the
\* finally ask for the lock (the keepalive byte of an idle connection is part
\* of the stream the client component reads)
HEof(c) ==
    /\ cur = "none"
    /\ hpc[c] = "serve"
    /\ broken[c] \/ wclosed[c] # "open"
    /\ hpc' = [hpc EXCEPT ![c] = "remove"]
    /\ lockQ' = Append(lockQ, c)
    /\ cur' = Uncontended(lockQ, c)
    /\ UNCHANGED <<srvRunning, srvListening, srvFormat, srvClients, wire, broken, wclosed,
                   ops, nPkt, nSrvStarts, nSetFormats, bcLog, stopAt, stopDone>>
    /\ UNCHANGED othersOfServer

\* _handle_client, finally: discard the writer under the lock, then close it
\* and wait_closed
HRemove(c) ==
    /\ OnLoop(c)
    /\ hpc[c] = "remove"
    /\ Holds(c)
    /\ srvClients' = srvClients \ {c}
    /\ lockQ' = Tail(lockQ)
    /\ wclosed' = [wclosed EXCEPT ![c] = IF @ = "open" THEN "handler" ELSE @]
    /\ hpc' = [hpc EXCEPT ![c] = "done"]
    /\ cur' = "none"
    /\ UNCHANGED <<srvRunning, srvListening, srvFormat, wire, broken,
                   ops, nPkt, nSrvStarts, nSetFormats, bcLog, stopAt, stopDone>>
    /\ UNCHANGED othersOfServer

\* NetworkAudioServer.start (awaits asyncio.start_server); the first start
\* follows the construction of the server, with a format (f: TRUE, as
\* NetworkOutput.configure does) or without
SrvStart(f) ==
    /\ cur = "none"
    /\ ops["ctl"].pc = "idle"
    /\ ~srvRunning
    /\ nSrvStarts < MaxServerStarts
    /\ nSrvStarts' = nSrvStarts + 1
    /\ srvRunning' = TRUE
    /\ srvListening' = TRUE
    /\ stopDone' = FALSE
    /\ stopAt' = {}
    /\ srvFormat' = IF nSrvStarts = 0 /\ f THEN "f" ELSE srvFormat
    /\ UNCHANGED <<srvClients, lockQ, wire, broken, wclosed, hpc, ops, nPkt,
                   nSetFormats, bcLog, cur>>
    /\ UNCHANGED othersOfServer

\* NetworkAudioServer.set_format: set self.format and, if running, broadcast the header
SetFormat ==
    /\ cur = "none"
    /\ ops["ctl"].pc = "idle"
    /\ nSetFormats < MaxSetFormats
    /\ nSetFormats' = nSetFormats + 1
    /\ srvFormat' = "f"
    /\ IF srvRunning
       THEN /\ ops' = [ops EXCEPT !["ctl"] =
                         [IdleOp EXCEPT !.op = "set_format", !.pc = "lock", !.data = Header]]
            /\ lockQ' = Append(lockQ, "ctl")
            /\ cur' = Uncontended(lockQ, "ctl")
       ELSE UNCHANGED <<ops, lockQ, cur>>
    /\ UNCHANGED <<srvRunning, srvListening, srvClients, wire, broken, wclosed, hpc, nPkt,
                   nSrvStarts, bcLog, stopAt, stopDone>>
    /\ UNCHANGED othersOfServer

\* NetworkAudioServer.broadcast_buffer: raise unless running, else build the audio
\* packet and broadcast it. NetworkOutput.process calls it on the recorder's
\* delegate loop, a thread of its own: its steps fall anywhere between the
\* steps of the server's loop
BroadcastBuffer ==
    /\ ops["bc"].pc = "idle"
    /\ nPkt < MaxPackets
    /\ nPkt' = nPkt + 1
    /\ IF srvRunning
       THEN /\ ops' = [ops EXCEPT !["bc"] =
                         [IdleOp EXCEPT !.op = "broadcast", !.pc = "lock",
                                        !.data = Audio(nPkt + 1)]]
            /\ lockQ' = Append(lockQ, "bc")
            /\ UNCHANGED bcLog
       ELSE /\ bcLog' = [bcLog EXCEPT ![nPkt + 1].res = "rejected"]
            /\ UNCHANGED <<ops, lockQ>>
    /\ UNCHANGED <<srvRunning, srvListening, srvFormat, srvClients, wire, broken, wclosed,
                   hpc, nSrvStarts, nSetFormats, stopAt, stopDone, cur>>
    /\ UNCHANGED othersOfServer

\* NetworkAudioServer.stop: return unless running, else broadcast the end packet
SrvStop ==
    /\ cur = "none"
    /\ ops["ctl"].pc = "idle"
    /\ srvRunning
    /\ ops' = [ops EXCEPT !["ctl"] =
                 [IdleOp EXCEPT !.op = "stop", !.pc = "lock", !.data = EndPacket]]
    /\ lockQ' = Append(lockQ, "ctl")
    /\ cur' = Uncontended(lockQ, "ctl")
    /\ stopAt' = srvClients
    /\ stopDone' = FALSE
    /\ UNCHANGED <<srvRunning, srvListening, srvFormat, srvClients, wire, broken, wclosed,
                   hpc, nPkt, nSrvStarts, nSetFormats, bcLog>>
    /\ UNCHANGED othersOfServer

\* the task on the server's loop after a step of u that may have suspended
\* (may: TRUE) or has not
LoopAfter(u, may) == IF u = "bc" THEN cur ELSE IF may THEN "none" ELSE u

\* _broadcast_data: the lock is acquired and the loop over self._clients begins
BLock(u) ==
    /\ u = "bc" \/ OnLoop(u)
    /\ ops[u].pc = "lock"
    /\ Holds(u)
    /\ ops' = [ops EXCEPT ![u].pc = "write", ![u].todo = srvClients]
    /\ cur' = LoopAfter(u, srvClients # {})
    /\ UNCHANGED <<srvRunning, srvListening, srvFormat, srvClients, lockQ, wire, broken,
                   wclosed, hpc, nPkt, nSrvStarts, nSetFormats, bcLog, stopAt, stopDone>>
    /\ UNCHANGED othersOfServer

\* _broadcast_data: write and drain for one client; an exception puts the client
\* on the disconnected list
BWrite(u, c) ==
    /\ u = "bc" \/ OnLoop(u)
    /\ ops[u].pc = "write"
    /\ c \in ops[u].todo
    /\ IF broken[c]
       THEN /\ ops' = [ops EXCEPT ![u].todo = AfterWriteFailure(@ \ {c}),
                                  ![u].failed = @ \cup {c}]
            /\ bcLog' = IF ops[u].op = "broadcast"
                        THEN [bcLog EXCEPT ![ops[u].data[2]].failed = @ \cup {c}]
                        ELSE bcLog
            /\ UNCHANGED wire
       ELSE /\ ops' = [ops EXCEPT ![u].todo = @ \ {c}]
            /\ wire' = [wire EXCEPT ![c] = Append(@, ops[u].data)]
            /\ bcLog' = IF ops[u].op = "broadcast"
                        THEN [bcLog EXCEPT ![ops[u].data[2]].sent = @ \cup {c}]
                        ELSE bcLog
    /\ cur' = LoopAfter(u, TRUE)
    /\ UNCHANGED <<srvRunning, srvListening, srvFormat, srvClients, lockQ, broken,
                   wclosed, hpc, nPkt, nSrvStarts, nSetFormats, stopAt, stopDone>>
    /\ UNCHANGED othersOfServer

\* what follows _broadcast_data, the lock queue being q: broadcast_buffer and
\* set_format return; stop goes on to close the connections under the lock
AfterBroadcast(u, q) ==
    IF ops[u].op = "stop"
    THEN /\ ops' = [ops EXCEPT ![u] = [IdleOp EXCEPT !.op = "stop", !.pc = "stop_lock"]]
         /\ lockQ' = Append(q, u)
         /\ cur' = Uncontended(q, u)
         /\ UNCHANGED bcLog
    ELSE /\ ops' = [ops EXCEPT ![u] = IdleOp]
         /\ lockQ' = q
         /\ cur' = LoopAfter(u, TRUE)
         /\ bcLog' = IF ops[u].op = "broadcast"
                     THEN [bcLog EXCEPT ![ops[u].data[2]].res = "returned"]
                     ELSE bcLog

\* _broadcast_data: the loop is over and the lock released; with clients on the
\* disconnected list the lock is asked for again
BWriteDone(u) ==
    /\ u = "bc" \/ OnLoop(u)
    /\ ops[u].pc = "write"
    /\ ops[u].todo = {}
    /\ IF ops[u].failed = {}
       THEN AfterBroadcast(u, Tail(lockQ))
       ELSE /\ ops' = [ops EXCEPT ![u].pc = "lock2"]
            /\ lockQ' = Append(Tail(lockQ), u)
            /\ cur' = IF u = "bc" THEN cur ELSE Uncontended(Tail(lockQ), u)
            /\ UNCHANGED bcLog
    /\ UNCHANGED <<srvRunning, srvListening, srvFormat, srvClients, wire, broken,
                   wclosed, hpc, nPkt, nSrvStarts, nSetFormats, stopAt, stopDone>>
    /\ UNCHANGED othersOfServer

\* _broadcast_data: under the lock, discard and close the clients whose write
\* failed (wait_closed suspends)
BRemove(u) ==
    /\ u = "bc" \/ OnLoop(u)
    /\ ops[u].pc = "lock2"
    /\ Holds(u)
    /\ srvClients' = srvClients \ ops[u].failed
    /\ wclosed' = [c \in Conns |-> IF c \in ops[u].failed /\ wclosed[c] = "open"
                                   THEN "broadcast" ELSE wclosed[c]]
    /\ IF ops[u].op = "stop"
       THEN /\ ops' = [ops EXCEPT ![u] = [IdleOp EXCEPT !.op = "stop", !.pc = "stop_lock"]]
            /\ lockQ' = Append(Tail(lockQ), u)
            /\ cur' = "none"
            /\ UNCHANGED bcLog
       ELSE AfterBroadcast(u, Tail(lockQ))
    /\ UNCHANGED <<srvRunning, srvListening, srvFormat, wire, broken,
                   hpc, nPkt, nSrvStarts, nSetFormats, stopAt, stopDone>>
    /\ UNCHANGED othersOfServer

\* stop: under the lock, close every writer of list(self._clients) and
\* wait_closed; with no client there is nothing to wait for, and
\* self._clients.clear(), the release and self._server.close() follow at once
StopCloseBegin(u) ==
    /\ OnLoop(u)
    /\ ops[u].pc = "stop_lock"
    /\ Holds(u)
    /\ IF srvClients = {}
       THEN /\ lockQ' = Tail(lockQ)
            /\ srvListening' = FALSE
            /\ ops' = [ops EXCEPT ![u].pc = "stop_wait"]
            /\ UNCHANGED wclosed
       ELSE /\ wclosed' = [c \in Conns |-> IF c \in srvClients /\ wclosed[c] = "open"
                                           THEN "stop" ELSE wclosed[c]]
            /\ ops' = [ops EXCEPT ![u].pc = "stop_closing"]
            /\ UNCHANGED <<lockQ, srvListening>>
    /\ cur' = "none"
    /\ UNCHANGED <<srvRunning, srvFormat, srvClients, wire, broken,
                   hpc, nPkt, nSrvStarts, nSetFormats, bcLog, stopAt, stopDone>>
    /\ UNCHANGED othersOfServer

\* stop: self._clients.clear(), the lock is released, self._server.close()
StopCloseEnd(u) ==
    /\ OnLoop(u)
    /\ ops[u].pc = "stop_closing"
    /\ srvClients' = {}
    /\ lockQ' = Tail(lockQ)
    /\ srvListening' = FALSE
    /\ ops' = [ops EXCEPT ![u].pc = "stop_wait"]
    /\ cur' = "none"
    /\ UNCHANGED <<srvRunning, srvFormat, wire, broken, wclosed,
                   hpc, nPkt, nSrvStarts, nSetFormats, bcLog, stopAt, stopDone>>
    /\ UNCHANGED othersOfServer

\* stop: `await self._server.wait_closed()` is over, _is_running = False, return
StopReturn(u) ==
    /\ OnLoop(u)
    /\ ops[u].pc = "stop_wait"
    /\ srvRunning' = FALSE
    /\ stopDone' = TRUE
    /\ ops' = [ops EXCEPT ![u] = IdleOp]
    /\ cur' = "none"
    /\ UNCHANGED <<srvListening, srvFormat, srvClients, lockQ, wire, broken, wclosed,
                   hpc, nPkt, nSrvStarts, nSetFormats, bcLog, stopAt>>
    /\ UNCHANGED othersOfServer

ServerNext ==
    \/ \E c \in Conns : HConnect(c)
    \/ \E c \in Conns : HAdd(c)
    \/ \E c \in Conns : HHeader(c)
    \/ \E c \in Conns : ClientDrop(c)
    \/ \E c \in Conns : HEof(c)
    \/ \E c \in Conns : HRemove(c)
    \/ \E f \in BOOLEAN : SrvStart(f)
    \/ SetFormat
    \/ BroadcastBuffer
    \/ SrvStop
    \/ \E u \in OpTasks : BLock(u)
    \/ \E u \in OpTasks, c \in Conns : BWrite(u, c)
    \/ \E u \in OpTasks : BWriteDone(u)
    \/ \E u \in OpTasks : BRemove(u)
    \/ \E u \in OpTasks : StopCloseBegin(u)
    \/ \E u \in OpTasks : StopCloseEnd(u)
    \/ \E u \in OpTasks : StopReturn(u)

ServerSpec == Init /\ [][ServerNext]_vars

(***************************************************************************)
(* NetworkAudioClient and the packets of one connection                    *)
(***************************************************************************)

\* AudioFormat: the formats common_format has a name for: 16-bit and 24-bit
\* integers, 32-bit floats (__post_init__ makes every 32-bit format a float
\* format) and 64-bit floats
Formats ==
    {[bits |-> b, float |-> (b \in {32, 64}), ch |-> c] :
        b \in {16, 24, 32, 64}, c \in 1..MaxChannels}

\* _create_format_header: magic 'AUDIO', version, packet type, '<I' sample rate,
\* '<H' channels, '<H' bit depth, '<I' flags
HeaderBytes == 5 + 1 + 1 + 4 + 2 + 2 + 4

\* _extract_audio_data: the bytes written per sample: astype('<f4') for a float
\* format, '<i2' for 16-bit integers, '<i4' for every other integer format
ServerSampleBytes(f) == IF f.float THEN 4 ELSE IF f.bits = 16 THEN 2 ELSE 4

\* _create_audio_packet: packet type, '<Q' timestamp, '<I' frame count, then the
\* samples of a (frames, channels) buffer
AudioPacketBytes(f, frames) == 1 + 8 + 4 + frames * f.ch * ServerSampleBytes(f)

\* _read_audio_packet: data_size = frame_count * channel_count * (bit_depth // 8)
ClientDataSize(f, frames) == frames * f.ch * (f.bits \div 8)

\* what the peer can send where the format header belongs: the header of this
\* server, a wrong magic, version or packet type, or a header cut short in the
\* magic, before the version, before the packet type or in the format data
HeaderKinds == {"good", "bad_magic", "bad_version", "bad_type",
                "cut_magic", "cut_version", "cut_type", "cut_format"}

\* the attributes NetworkAudioClient.__init__ assigns
ClientAttrs == {"host", "port", "_reader", "_writer", "_format", "_is_connected"}

\* _read_format_header: the exception it raises ("none": it returns the format).
\* more: bytes of a following packet have arrived, so that read(14) returns more
\* than the 12 bytes struct.unpack('<IHHI') takes
ReadFormatHeader(kind, more) ==
    CASE kind \in {"bad_magic", "cut_magic"} -> "StreamingProtocolError"
      [] kind = "cut_version" -> "IndexError"
      [] kind = "bad_version" -> "StreamingProtocolError"
      [] kind = "cut_type" -> "IndexError"
      [] kind = "bad_type" -> "StreamingProtocolError"
      [] kind = "cut_format" -> "struct.error"
      [] kind = "good" -> IF more THEN "struct.error" ELSE "none"

\* connect: `except Exception as e: raise NetworkConnectionFailedError(...)`
ConnectRaises(exc) == "NetworkConnectionFailedError"

\* the frame counts of the audio packets of s
RECURSIVE AudioFrames(_)
AudioFrames(s) ==
    IF s = <<>> THEN <<>>
    ELSE IF Head(s).type = "A" THEN <<Head(s).frames>> \o AudioFrames(Tail(s))
         ELSE AudioFrames(Tail(s))

\* the peer accepts the connection and writes what stands for the format header
PeerHeader(f, kind) ==
    /\ cstream = <<>>
    /\ cfmt' = f
    /\ cstream' = <<[type |-> "H", kind |-> kind, frames |-> 0,
                     size |-> IF kind = "good" THEN HeaderBytes ELSE 0]>>
    /\ UNCHANGED <<cpc, rpos, isConnected, connErr, yielded, desync, connAt>>
    /\ UNCHANGED othersOfClient

Streaming ==
    /\ cstream # <<>>
    /\ cstream[1].kind = "good"
    /\ cstream[Len(cstream)].type # "E"

\* the server broadcasts a buffer of `frames` frames: _create_audio_packet
SendAudio(frames) ==
    /\ Streaming
    /\ Len(AudioFrames(cstream)) < MaxPackets
    /\ cstream' = Append(cstream, [type |-> "A", kind |-> "good", frames |-> frames,
                                   size |-> AudioPacketBytes(cfmt, frames)])
    /\ UNCHANGED <<cfmt, cpc, rpos, isConnected, connErr, yielded, desync, connAt>>
    /\ UNCHANGED othersOfClient

\* the server's handler writes the keepalive byte b'\x00' (once here)
SendKeepalive ==
    /\ Streaming
    /\ \A i \in 1..Len(cstream) : cstream[i].type # "K"
    /\ cstream' = Append(cstream, [type |-> "K", kind |-> "good", frames |-> 0, size |-> 1])
    /\ UNCHANGED <<cfmt, cpc, rpos, isConnected, connErr, yielded, desync, connAt>>
    /\ UNCHANGED othersOfClient

\* the server stops: _create_end_packet, packet type and '<Q' timestamp
SendEnd ==
    /\ Streaming
    /\ cstream' = Append(cstream, [type |-> "E", kind |-> "good", frames |-> 0,
                                   size |-> 1 + 8])
    /\ UNCHANGED <<cfmt, cpc, rpos, isConnected, connErr, yielded, desync, connAt>>
    /\ UNCHANGED othersOfClient

\* NetworkAudioClient.connect: open the connection, read the format header
Connect(more) ==
    /\ cpc = "init"
    /\ cstream # <<>>
    /\ more => Len(cstream) > 1
    /\ LET exc == ReadFormatHeader(cstream[1].kind, more)
       IN IF exc = "none"
          THEN /\ isConnected' = TRUE
               /\ cpc' = "connected"
               /\ rpos' = 1
               /\ connErr' = "none"
          ELSE /\ isConnected' = FALSE
               /\ cpc' = "failed"
               /\ rpos' = rpos
               /\ connErr' = ConnectRaises(exc)
    /\ connAt' = Len(cstream)
    /\ UNCHANGED <<cfmt, cstream, yielded, desync>>
    /\ UNCHANGED othersOfClient

\* receive_audio, one turn of the loop: read the packet type; an audio packet
\* goes through _read_audio_packet (short: a read returned fewer bytes than asked
\* for, and None is returned), whose timestamp line reads self._start_time; an
\* exception ends the loop; a keepalive is skipped; an end packet ends the loop;
\* after the loop, disconnect()
Receive(short) ==
    /\ cpc = "connected"
    /\ ~desync
    /\ rpos < Len(cstream)
    /\ LET p == cstream[rpos + 1]
       IN /\ rpos' = rpos + 1
          /\ short => p.type = "A"
          /\ CASE p.type = "A" /\ short ->
                    /\ desync' = TRUE
                    /\ UNCHANGED <<yielded, cpc, isConnected>>
               [] p.type = "A" /\ ~short /\ "_start_time" \notin ClientAttrs ->
                    /\ cpc' = "ended"
                    /\ isConnected' = FALSE
                    /\ desync' = (13 + ClientDataSize(cfmt, p.frames) # p.size)
                    /\ UNCHANGED yielded
               [] p.type = "A" /\ ~short /\ "_start_time" \in ClientAttrs ->
                    /\ desync' = (13 + ClientDataSize(cfmt, p.frames) # p.size)
                    /\ yielded' = IF desync' THEN yielded ELSE Append(yielded, p.frames)
                    /\ UNCHANGED <<cpc, isConnected>>
               [] p.type = "K" ->
                    UNCHANGED <<yielded, cpc, isConnected, desync>>
               [] p.type \in {"E", "H"} ->
                    /\ cpc' = "ended"
                    /\ isConnected' = FALSE
                    /\ UNCHANGED <<yielded, desync>>
    /\ UNCHANGED <<cfmt, cstream, connErr, connAt>>
    /\ UNCHANGED othersOfClient

ClientNext ==
    \/ \E f \in Formats, kind \in HeaderKinds : PeerHeader(f, kind)
    \/ \E frames \in 1..MaxFrames : SendAudio(frames)
    \/ SendKeepalive
    \/ SendEnd
    \/ \E more \in BOOLEAN : Connect(more)
    \/ \E short \in BOOLEAN : Receive(short)

ClientSpec == Init /\ [][ClientNext]_vars

(***************************************************************************)
(* FileOutput and WavFileWriter                                            *)
(***************************************************************************)

\* the event-loop thread is free to run a task
LoopFree == fBlocked = "none"

\* FileOutput.process past `with self._write_lock:`, the lock taken by t:
\* WavFileWriter.write returns at once when the writer is not writing, else
\* hands _write_sync to the executor and awaits it
EnterWrite(t) ==
    IF wIsWriting
    THEN /\ fLock' = t
         /\ fpc' = [fpc EXCEPT ![t] = "await"]
         /\ fjob' = [fjob EXCEPT ![t] = [st |-> "queued", gen |-> fGen, io |-> "none", late |-> fErrAt >= 0]]
         /\ UNCHANGED fres
    ELSE /\ fLock' = "none"
         /\ fpc' = [fpc EXCEPT ![t] = "idle"]
         /\ fres' = [fres EXCEPT ![t] = [res |-> "returned", io |-> "none", late |-> FALSE]]
         /\ UNCHANGED fjob

\* FileOutput.configure: return if configured, else create a WavFileWriter and
\* start_writing, which opens the file 'wb' (fail: wave.open raises, and
\* FileWriteFailedError leaves the sink unconfigured with the new writer set)
FConfigure(fail) ==
    /\ LoopFree
    /\ fGen < MaxConfigures
    /\ ~fConfigured
    /\ fWriter' = TRUE
    /\ fGen' = fGen + 1
    /\ IF fail
       THEN /\ wIsWriting' = FALSE
            /\ UNCHANGED <<fConfigured, fOpens>>
       ELSE /\ wIsWriting' = TRUE
            /\ fConfigured' = TRUE
            /\ fOpens' = fOpens + 1
    /\ fErrAt' = -1
    /\ UNCHANGED <<fWrites, fClosed, fLock, fBlocked, fpc, fjob, fres, nProc>>
    /\ UNCHANGED othersOfFile

\* FileOutput.finish: stop_writing the writer (under the writer's lock: not
\* writing, file closed), drop it, _is_configured = False
FFinish ==
    /\ LoopFree
    /\ fWriter \/ fConfigured
    /\ fClosed' = (fClosed \/ (fWriter /\ wIsWriting))
    /\ wIsWriting' = FALSE
    /\ fWriter' = FALSE
    /\ fConfigured' = FALSE
    /\ UNCHANGED <<fGen, fOpens, fWrites, fLock, fBlocked, fpc, fjob, fres, nProc, fErrAt>>
    /\ UNCHANGED othersOfFile

\* FileOutput.process is called in task t: OutputNotConfiguredError unless
\* configured; `with self._write_lock:` takes the threading.Lock, or makes the
\* event-loop thread wait for it (the lock is released only by FProcessReturn,
\* a step of this same thread)
FProcess(t) ==
    /\ LoopFree
    /\ fpc[t] = "idle"
    /\ nProc < MaxWrites
    /\ nProc' = nProc + 1
    /\ IF ~fConfigured \/ ~fWriter
       THEN /\ fres' = [fres EXCEPT ![t] = [res |-> "OutputNotConfiguredError", io |-> "none", late |-> FALSE]]
            /\ UNCHANGED <<fLock, fBlocked, fpc, fjob>>
       ELSE IF fLock = "none"
            THEN EnterWrite(t) /\ UNCHANGED fBlocked
            ELSE /\ fBlocked' = t
                 /\ fpc' = [fpc EXCEPT ![t] = "blocked"]
                 /\ fres' = [fres EXCEPT ![t] = NoResult]
                 /\ UNCHANGED <<fLock, fjob>>
    /\ UNCHANGED <<fConfigured, fWriter, fGen, wIsWriting, fOpens, fWrites, fClosed, fErrAt>>
    /\ UNCHANGED othersOfFile

\* WavFileWriter._write_sync in an executor thread: nothing if the writer is
\* not writing any more; else convert and writeframes; an exception (io
\* "error") is caught and printed
FWriteSync(t, io) ==
    /\ fjob[t].st = "queued"
    /\ IF fjob[t].gen = fGen /\ wIsWriting
       THEN /\ fjob' = [fjob EXCEPT ![t].st = "done", ![t].io = io]
            /\ fWrites' = IF io = "ok" THEN fWrites + 1 ELSE fWrites
            /\ fErrAt' = IF io = "error" /\ fErrAt < 0 THEN fWrites ELSE fErrAt
       ELSE /\ io = "ok"
            /\ fjob' = [fjob EXCEPT ![t].st = "done"]
            /\ UNCHANGED <<fWrites, fErrAt>>
    /\ UNCHANGED <<fConfigured, fWriter, fGen, wIsWriting, fOpens, fClosed, fLock,
                   fBlocked, fpc, fres, nProc>>
    /\ UNCHANGED othersOfFile

\* the executor future is done and the event loop resumes task t: write()
\* returns, the `with` releases the lock, process() returns
FProcessReturn(t) ==
    /\ LoopFree
    /\ fpc[t] = "await"
    /\ fjob[t].st = "done"
    /\ fLock' = "none"
    /\ fpc' = [fpc EXCEPT ![t] = "idle"]
    /\ fres' = [fres EXCEPT ![t] = [res |-> "returned", io |-> fjob[t].io, late |-> fjob[t].late]]
    /\ fjob' = [fjob EXCEPT ![t] = NoJob]
    /\ UNCHANGED <<fConfigured, fWriter, fGen, wIsWriting, fOpens, fWrites, fClosed,
                   fBlocked, nProc, fErrAt>>
    /\ UNCHANGED othersOfFile

FileNext ==
    \/ \E fail \in BOOLEAN : FConfigure(fail)
    \/ FFinish
    \/ \E t \in Workers : FProcess(t)
    \/ \E t \in Workers, io \in {"ok", "error"} : FWriteSync(t, io)
    \/ \E t \in Workers : FProcessReturn(t)

FileSpec == Init /\ [][FileNext]_vars

\* the executor runs its jobs, and the event loop resumes a task whose future
\* is done
FileFairness ==
    /\ \A t \in Workers : WF_vars(\E io \in {"ok", "error"} : FWriteSync(t, io))
    /\ \A t \in Workers : WF_vars(FProcessReturn(t))

FileFairSpec == FileSpec /\ FileFairness

(***************************************************************************)
(* ConvertingBufferCollector (input and target format alike: a buffer of   *)
(* n frames converts to n frames)                                          *)
(***************************************************************************)

\* add_buffer at the limit: self._buffers.pop(0)
\* (PopNewest is the faulty variant that drops the last one)
PopNewest(s) == SubSeq(s, 1, Len(s) - 1)
PopOldest(s) == Tail(s)

RECURSIVE SumFrames(_)
SumFrames(s) == IF s = <<>> THEN 0 ELSE Head(s).frames + SumFrames(Tail(s))

\* ConvertingBufferCollector(input_format, target_format, max_buffers=k)
CNew(k) ==
    /\ cMax = 0
    /\ cMax' = k
    /\ UNCHANGED <<cBuffers, cAdded, cErrors, cCached, nAdd, cConverted, cLast>>
    /\ UNCHANGED othersOfCollector

\* add_buffer of a buffer of `frames` frames (bad: _convert_buffer meets an
\* exception and returns None).  The oldest buffer is popped at the limit
\* before the conversion; a converted buffer is appended and counted; the
\* debug lines of the first buffers divide by len(buffer.data)
CAddBuffer(frames, bad) ==
    /\ cMax > 0
    /\ nAdd < MaxAdds
    /\ nAdd' = nAdd + 1
    /\ LET kept == IF Len(cBuffers) >= cMax THEN PopOldest(cBuffers) ELSE cBuffers
       IN IF bad
          THEN /\ cBuffers' = kept
               /\ cErrors' = cErrors + 1
               /\ cLast' = [failed |-> TRUE, raised |-> FALSE]
               /\ UNCHANGED <<cAdded, cCached, cConverted>>
          ELSE /\ cBuffers' = Append(kept, [id |-> nAdd + 1, frames |-> frames])
               /\ cAdded' = cAdded + 1
               /\ cCached' = cCached + frames
               /\ cConverted' = Append(cConverted, nAdd + 1)
               /\ cLast' = [failed |-> FALSE,
                            raised |-> (cAdded + 1 <= DebugBuffers /\ frames = 0)]
               /\ UNCHANGED cErrors
    /\ UNCHANGED cMax
    /\ UNCHANGED othersOfCollector

\* clear
CClear ==
    /\ cMax > 0
    /\ cBuffers # <<>> \/ cAdded > 0
    /\ cBuffers' = <<>>
    /\ cAdded' = 0
    /\ cCached' = 0
    /\ UNCHANGED <<cMax, cErrors, nAdd, cConverted, cLast>>
    /\ UNCHANGED othersOfCollector

CollectorNext ==
    \/ \E k \in 1..MaxCollBuffers : CNew(k)
    \/ \E frames \in 0..MaxFrames, bad \in BOOLEAN : CAddBuffer(frames, bad)
    \/ CClear

CollectorSpec == Init /\ [][CollectorNext]_vars

(***************************************************************************)
(* PriorityAudioBufferQueue.  enqueue() may be called from several         *)
(* threads: the part under self._lock is one step, _dequeue_highest takes  *)
(* the lock again and is another.                                          *)
(***************************************************************************)

\* class Priority(IntEnum): LOW, NORMAL, HIGH, CRITICAL
Priorities == 0..3

\* _find_insert_index: binary search for the first item of lower priority
\* (low and high as in the code, counted from 0)
RECURSIVE InsertSearch(_, _, _, _)
InsertSearch(s, priority, low, high) ==
    IF low < high
    THEN LET mid == (low + high) \div 2
         IN IF s[mid + 1].prio >= priority
            THEN InsertSearch(s, priority, mid + 1, high)
            ELSE InsertSearch(s, priority, low, mid)
    ELSE low

FindInsertIndex(s, priority) == InsertSearch(s, priority, 0, Len(s))

\* list.insert(idx, x) and list.pop(idx), idx counted from 0
InsertAt(s, idx, x) == SubSeq(s, 1, idx) \o <<x>> \o SubSeq(s, idx + 1, Len(s))

PopAt(s, idx) == SubSeq(s, 1, idx) \o SubSeq(s, idx + 2, Len(s))

\* _find_lowest_priority_index of a non-empty list: the scan keeps the first
\* index of the lowest priority met (a later item replaces it only when its
\* priority is strictly lower)
RECURSIVE LowestScan(_, _, _)
LowestScan(s, idx, lowest) ==
    IF idx >= Len(s) THEN lowest
    ELSE LowestScan(s, idx + 1,
                    IF s[idx + 1].prio < s[lowest + 1].prio THEN idx ELSE lowest)

\* (FindLastLowestIndex is the faulty variant whose scan compares with <=,
\* so that the last item of the lowest priority is taken)
FindLastLowestIndex(s) ==
    CHOOSE i \in 0..(Len(s) - 1) :
        /\ \A j \in 1..Len(s) : s[j].prio >= s[i + 1].prio
        /\ \A j \in (i + 2)..Len(s) : s[j].prio > s[i + 1].prio
FindLowestPriorityIndex(s) == LowestScan(s, 0, 0)

\* PriorityAudioBufferQueue(max_size=k)
PNew(k) ==
    /\ pqMax = 0
    /\ pqMax' = k
    /\ UNCHANGED <<pqBuffers, pqOut, ppc, nPEnq, pqFinished, pqEvicted>>
    /\ UNCHANGED <<pqReader, pqRead>>
    /\ UNCHANGED othersOfPriority

\* enqueue() as far as the lock: a finished queue returns at once
PEnqueueBegin(t) ==
    /\ pqMax > 0
    /\ ppc[t] = "idle"
    /\ ~pqFinished
    /\ nPEnq + Cardinality({u \in Enqueuers : ppc[u] = "lock"}) < MaxPEnqueues
    /\ ppc' = [ppc EXCEPT ![t] = "lock"]
    /\ UNCHANGED <<pqMax, pqBuffers, pqOut, nPEnq, pqFinished, pqEvicted>>
    /\ UNCHANGED <<pqReader, pqRead>>
    /\ UNCHANGED othersOfPriority

\* enqueue() under the lock: a list holding max_size items loses the item at
\* _find_lowest_priority_index, then the new item goes in at _find_insert_index
PInsert(t, priority) ==
    /\ ppc[t] = "lock"
    /\ LET full == Len(pqBuffers) >= pqMax /\ pqBuffers # <<>>
           lowest == FindLowestPriorityIndex(pqBuffers)
           kept == IF full THEN PopAt(pqBuffers, lowest) ELSE pqBuffers
       IN /\ pqBuffers' = InsertAt(kept, FindInsertIndex(kept, priority),
                                   [id |-> nPEnq + 1, prio |-> priority])
          /\ pqEvicted' = IF full THEN pqEvicted \cup {pqBuffers[lowest + 1]}
                          ELSE pqEvicted
    /\ nPEnq' = nPEnq + 1
    /\ ppc' = [ppc EXCEPT ![t] = "inserted"]
    /\ UNCHANGED <<pqMax, pqOut, pqFinished>>
    /\ UNCHANGED <<pqReader, pqRead>>
    /\ UNCHANGED othersOfPriority

\* the rest of enqueue(): _dequeue_highest pops the head of the list, if any,
\* and it is put on the (unbounded) asyncio queue
PDequeueHighest(t) ==
    /\ ppc[t] = "inserted"
    /\ IF pqBuffers # <<>>
       THEN /\ pqBuffers' = Tail(pqBuffers)
            /\ pqOut' = Append(pqOut, Head(pqBuffers))
       ELSE UNCHANGED <<pqBuffers, pqOut>>
    /\ ppc' = [ppc EXCEPT ![t] = "idle"]
    /\ UNCHANGED <<pqMax, nPEnq, pqFinished, pqEvicted>>
    /\ UNCHANGED <<pqReader, pqRead>>
    /\ UNCHANGED othersOfPriority

\* finish(): the held items go to the asyncio queue in list order, the list is
\* cleared, None is put last
PFinish ==
    /\ pqMax > 0
    /\ ~pqFinished
    /\ pqFinished' = TRUE
    /\ pqOut' = pqOut \o pqBuffers \o <<[id |-> 0, prio |-> 0]>>
    /\ pqBuffers' = <<>>
    /\ UNCHANGED <<pqMax, ppc, nPEnq, pqEvicted>>
    /\ UNCHANGED <<pqReader, pqRead>>
    /\ UNCHANGED othersOfPriority

\* stream(): `while not self._is_finished: await wait_for(self._queue.get(), 0.1)`
PStreamPoll ==
    /\ pqMax > 0
    /\ pqReader = "idle"
    /\ ~pqFinished
    /\ pqReader' = "waiting"
    /\ UNCHANGED <<pqMax, pqBuffers, pqOut, ppc, nPEnq, pqFinished, pqEvicted, pqRead>>
    /\ UNCHANGED othersOfPriority

\* get() returns the head of the asyncio queue; it is yielded unless it is None
PStreamGet ==
    /\ pqReader = "waiting"
    /\ pqRead < Len(pqOut)
    /\ pqRead' = pqRead + 1
    /\ pqReader' = "idle"
    /\ UNCHANGED <<pqMax, pqBuffers, pqOut, ppc, nPEnq, pqFinished, pqEvicted>>
    /\ UNCHANGED othersOfPriority

PStreamTimeout ==
    /\ pqReader = "waiting"
    /\ pqRead = Len(pqOut)
    /\ pqReader' = "idle"
    /\ UNCHANGED <<pqMax, pqBuffers, pqOut, ppc, nPEnq, pqFinished, pqEvicted, pqRead>>
    /\ UNCHANGED othersOfPriority

PriorityNext ==
    \/ \E k \in 1..MaxPrioSize : PNew(k)
    \/ \E t \in Enqueuers : PEnqueueBegin(t)
    \/ \E t \in Enqueuers, priority \in Priorities : PInsert(t, priority)
    \/ \E t \in Enqueuers : PDequeueHighest(t)
    \/ PFinish
    \/ PStreamPoll
    \/ PStreamGet
    \/ PStreamTimeout

PrioritySpec == Init /\ [][PriorityNext]_vars

(***************************************************************************)
(* CircularAudioBufferQueue.  Every method runs under self._lock, so the   *)
(* calls of a producer and a consumer thread interleave as whole steps.    *)
(***************************************************************************)

\* the full test of try_enqueue: next_tail == self._head
\* (NeverFull is the faulty variant that always stores)
NeverFull(capacity, head, tail) == FALSE
EnqueueFull(capacity, head, tail) == (tail + 1) % capacity = head

\* the is_full and count properties
IsFull(capacity, head, tail) == (tail + 1) % capacity = head

Count(capacity, head, tail) ==
    IF tail >= head THEN tail - head ELSE capacity - head + tail

\* the values between head and tail, in dequeue order
RingContents(slots, capacity, head, tail) ==
    [i \in 1..Count(capacity, head, tail) |-> slots[(head + i - 1) % capacity]]

\* CircularAudioBufferQueue(capacity=k)
RNew(k) ==
    /\ rCap = 0
    /\ rCap' = k
    /\ rSlots' = [i \in 0..(k - 1) |-> 0]
    /\ UNCHANGED <<rHead, rTail, nREnq, rAccepted, rReturned, rLast, rCleared>>
    /\ UNCHANGED othersOfRing

\* try_enqueue
RTryEnqueue ==
    /\ rCap > 0
    /\ nREnq < MaxRingEnqueues
    /\ nREnq' = nREnq + 1
    /\ IF EnqueueFull(rCap, rHead, rTail)
       THEN /\ rLast' = [op |-> "try_enqueue", res |-> 0]
            /\ UNCHANGED <<rSlots, rTail, rAccepted>>
       ELSE /\ rSlots' = [rSlots EXCEPT ![rTail] = nREnq + 1]
            /\ rTail' = (rTail + 1) % rCap
            /\ rAccepted' = Append(rAccepted, nREnq + 1)
            /\ rLast' = [op |-> "try_enqueue", res |-> 1]
    /\ UNCHANGED <<rCap, rHead, rReturned, rCleared>>
    /\ UNCHANGED othersOfRing

\* try_dequeue (res 0: None)
RTryDequeue ==
    /\ rCap > 0
    /\ IF rHead = rTail
       THEN /\ rLast' = [op |-> "try_dequeue", res |-> 0]
            /\ UNCHANGED <<rSlots, rHead, rReturned>>
       ELSE /\ rLast' = [op |-> "try_dequeue", res |-> rSlots[rHead]]
            /\ rReturned' = Append(rReturned, rSlots[rHead])
            /\ rSlots' = [rSlots EXCEPT ![rHead] = 0]
            /\ rHead' = (rHead + 1) % rCap
    /\ UNCHANGED <<rCap, rTail, nREnq, rAccepted, rCleared>>
    /\ UNCHANGED othersOfRing

\* clear
RClear ==
    /\ rCap > 0
    /\ ~rCleared
    /\ rHead' = 0
    /\ rTail' = 0
    /\ rSlots' = [i \in 0..(rCap - 1) |-> 0]
    /\ rLast' = [op |-> "clear", res |-> 0]
    /\ rCleared' = TRUE
    /\ UNCHANGED <<rCap, nREnq, rAccepted, rReturned>>
    /\ UNCHANGED othersOfRing

RingNext ==
    \/ \E k \in 1..MaxRingCapacity : RNew(k)
    \/ RTryEnqueue
    \/ RTryDequeue
    \/ RClear

RingSpec == Init /\ [][RingNext]_vars

(***************************************************************************)
(* AudioCaptureKit: the sessions it creates and tracks, and cleanup().     *)
(* The calls are made one after another by one task.  A session is its     *)
(* kind and its state; the n-th session created has id n, so the order of  *)
(* the ids is the insertion order of the kit's dicts.                      *)
(***************************************************************************)

\* the sessions created so far
Created == {s \in SessionIds : kSessions[s].kind # "none"}

\* list(dict.values()): the tracked sessions in insertion order
RECURSIVE SessionList(_)
SessionList(S) ==
    IF S = {} THEN <<>>
    ELSE LET s == CHOOSE x \in S : \A y \in S : x <= y
         IN <<s>> \o SessionList(S \ {s})

\* session.stop() of AudioCaptureSession and AudioPlaybackSession: InvalidStateError
\* unless Active or Paused; else STOPPING, the recorder or player is stopped
\* (fails: closing the device stream raises, and the exception leaves stop()),
\* and STOPPED
SessionStop(st, fails) ==
    IF st \in StopAccepts THEN (IF fails THEN "Stopping" ELSE "Stopped") ELSE st

StopRaises(st, fails) == st \notin StopAccepts \/ fails

\* the API is called outside cleanup()
KitIdle == kpc \in {"idle", "returned"}

\* start_capture / start_playback: the session is stored, then started; a start
\* that fails (ok false) leaves it in Error and raises, the session stays stored
KStart(kind, ok) ==
    /\ KitIdle
    /\ Created # SessionIds
    /\ LET s == Cardinality(Created) + 1
       IN /\ kSessions' = [kSessions EXCEPT ![s] =
                              [kind |-> kind, state |-> IF ok THEN "Active" ELSE "Error"]]
          /\ IF kind = "capture"
             THEN kCapture' = kCapture \cup {s} /\ UNCHANGED kPlayback
             ELSE kPlayback' = kPlayback \cup {s} /\ UNCHANGED kCapture
    /\ kpc' = "idle"
    /\ UNCHANGED <<kTodo, kAtBegin, kRaised>>
    /\ UNCHANGED othersOfKit

\* session.pause()
KPause(s) ==
    /\ KitIdle
    /\ kSessions[s].state \in PauseAccepts
    /\ kSessions' = [kSessions EXCEPT ![s].state = "Paused"]
    /\ kpc' = "idle"
    /\ UNCHANGED <<kCapture, kPlayback, kTodo, kAtBegin, kRaised>>
    /\ UNCHANGED othersOfKit

\* stop_capture(session) / stop_playback(session): the session is dropped from
\* the dict once its stop() has returned
KStop(s, fails) ==
    /\ KitIdle
    /\ s \in Created
    /\ fails => kSessions[s].state \in StopAccepts
    /\ kSessions' = [kSessions EXCEPT ![s].state = SessionStop(@, fails)]
    /\ IF StopRaises(kSessions[s].state, fails)
       THEN UNCHANGED <<kCapture, kPlayback>>
       ELSE /\ kCapture' = kCapture \ {s}
            /\ kPlayback' = kPlayback \ {s}
    /\ kpc' = "idle"
    /\ UNCHANGED <<kTodo, kAtBegin, kRaised>>
    /\ UNCHANGED othersOfKit

\* cleanup() begins: the loop over list(self._capture_sessions.values())
KCleanupBegin ==
    /\ KitIdle
    /\ kpc' = "capture"
    /\ kTodo' = SessionList(kCapture)
    /\ kAtBegin' = [s \in SessionIds |-> kSessions[s].state]
    /\ kRaised' = {}
    /\ UNCHANGED <<kSessions, kCapture, kPlayback>>
    /\ UNCHANGED othersOfKit

\* one turn of either loop: try: await session.stop() / except Exception: pass
KCleanupStop(fails) ==
    /\ kpc \in {"capture", "playback"}
    /\ kTodo # <<>>
    /\ LET s == Head(kTodo)
       IN /\ fails => kSessions[s].state \in StopAccepts
          /\ kSessions' = [kSessions EXCEPT ![s].state = SessionStop(@, fails)]
          /\ kRaised' = IF StopRaises(kSessions[s].state, fails)
                        THEN kRaised \cup {s} ELSE kRaised
    /\ kTodo' = Tail(kTodo)
    /\ UNCHANGED <<kCapture, kPlayback, kpc, kAtBegin>>
    /\ UNCHANGED othersOfKit

\* self._capture_sessions.clear(), and on to the playback sessions
KCleanupPlayback ==
    /\ kpc = "capture"
    /\ kTodo = <<>>
    /\ kCapture' = {}
    /\ kpc' = "playback"
    /\ kTodo' = SessionList(kPlayback)
    /\ UNCHANGED <<kSessions, kPlayback, kAtBegin, kRaised>>
    /\ UNCHANGED othersOfKit

\* self._playback_sessions.clear(), stop_monitoring(), and cleanup() returns
KCleanupReturn ==
    /\ kpc = "playback"
    /\ kTodo = <<>>
    /\ kPlayback' = {}
    /\ kpc' = "returned"
    /\ UNCHANGED <<kSessions, kCapture, kTodo, kAtBegin, kRaised>>
    /\ UNCHANGED othersOfKit

KitNext ==
    \/ \E kind \in {"capture", "playback"}, ok \in BOOLEAN : KStart(kind, ok)
    \/ \E s \in SessionIds : KPause(s)
    \/ \E s \in SessionIds, fails \in BOOLEAN : KStop(s, fails)
    \/ KCleanupBegin
    \/ \E fails \in BOOLEAN : KCleanupStop(fails)
    \/ KCleanupPlayback
    \/ KCleanupReturn

KitSpec == Init /\ [][KitNext]_vars

(***************************************************************************)
(* AudioFormat and AudioFormatNegotiator.  Scores are counted in tenths.   *)
(***************************************************************************)

SampleRates == {44100, 48000}

AudioFormats ==
    {MakeFormat(r, c, b, i, f) : r \in SampleRates, c \in 1..MaxChannels,
                                 b \in {16, 24, 32, 64}, i \in BOOLEAN, f \in BOOLEAN}

FormatPriority == {"Quality", "Compatibility", "Performance", "Balanced"}

\* AudioFormat.is_compatible
IsCompatible(a, b) ==
    /\ a.sample_rate = b.sample_rate
    /\ a.channel_count = b.channel_count
    /\ a.bit_depth = b.bit_depth
    /\ a.is_interleaved = b.is_interleaved
    /\ a.is_float = b.is_float

\* AudioFormatNegotiator.negotiate
NegotiateFormat(source, destination, priority) ==
    IF IsCompatible(source, destination) THEN source
    ELSE CASE priority = "Quality" ->
                 MakeFormat(Max(source.sample_rate, destination.sample_rate),
                            Max(source.channel_count, destination.channel_count),
                            Max(source.bit_depth, destination.bit_depth),
                            destination.is_interleaved,
                            source.is_float \/ destination.is_float)
           [] priority = "Compatibility" -> destination
           [] priority = "Performance" -> source
           [] OTHER ->
                 MakeFormat(destination.sample_rate,
                            Min(source.channel_count, destination.channel_count),
                            destination.bit_depth,
                            destination.is_interleaved,
                            destination.is_float)

\* AudioFormatNegotiator.conversion_complexity
\* (ComplexityWithBase is the faulty variant that charges every conversion 0.1)
ComplexityWithBase(source, destination) ==
    Min(10, 1 + (IF source.sample_rate # destination.sample_rate THEN 3 ELSE 0))
ConversionComplexity(source, destination) ==
    Min(10, (IF source.sample_rate # destination.sample_rate THEN 3 ELSE 0)
          + (IF source.channel_count # destination.channel_count THEN 2 ELSE 0)
          + (IF source.bit_depth # destination.bit_depth THEN 2 ELSE 0)
          + (IF source.is_float # destination.is_float THEN 2 ELSE 0)
          + (IF source.is_interleaved # destination.is_interleaved THEN 1 ELSE 0))

\* negotiate(a, b, FormatPreferences(priority=p)) and conversion_complexity(a, b):
\* both are static and pure, one call of each with the same pair is looked at
Negotiate(a, b, p) ==
    /\ negPrio = "none"
    /\ negSrc' = a
    /\ negDst' = b
    /\ negPrio' = p
    /\ negResult' = NegotiateFormat(a, b, p)
    /\ negComplexity' = ConversionComplexity(a, b)
    /\ UNCHANGED othersOfNegotiator

NegotiatorNext ==
    \E a, b \in AudioFormats, p \in FormatPriority : Negotiate(a, b, p)

NegotiatorSpec == Init /\ [][NegotiatorNext]_vars

(***************************************************************************)
(* InteractiveRecordingMixer.mix_audio_buffers.  A buffer is the sequence  *)
(* of its frames; a frame is one sample, every channel being mixed by the  *)
(* same expression.  Samples are even, so that sample * 0.5 is exact.      *)
(***************************************************************************)

Samples == {2, 4}

Half(x) == x \div 2

\* np.vstack: the buffers one after the other
RECURSIVE VStack(_)
VStack(bufs) == IF bufs = <<>> THEN <<>> ELSE Head(bufs) \o VStack(Tail(bufs))

\* the buffer lists a collector may hold: at most MaxMixFrames frames in all
MixBuffers == UNION {[1..n -> Samples] : n \in 1..MaxMixFrames}

BufferLists ==
    {l \in UNION {[1..k -> MixBuffers] : k \in 0..MaxMixFrames} :
        Len(VStack(l)) <= MaxMixFrames}

\* input_offset after an output buffer of n frames: `input_offset += 1` per frame
\* (RestartOffset is the faulty variant that starts every output buffer at 0)
RestartOffset(offset, n) == 0
NextOffset(offset, n) == offset + n

\* the loop body for one output buffer: frame i is mixed with the input frame
\* at input_offset + i, or with 0.0 past the end of the input
MixOne(buffer, combined, offset) ==
    [i \in 1..Len(buffer) |->
        Half(buffer[i]) + (IF offset + i - 1 < Len(combined)
                           THEN Half(combined[offset + i]) ELSE 0)]

\* `for output_buffer in output_buffers`: the list of mixed buffers
RECURSIVE MixLoop(_, _, _)
MixLoop(outs, combined, offset) ==
    IF outs = <<>> THEN <<>>
    ELSE <<MixOne(Head(outs), combined, offset)>>
            \o MixLoop(Tail(outs), combined, NextOffset(offset, Len(Head(outs))))

\* mix_audio_buffers
MixAudioBuffers(ins, outs) ==
    IF ins = <<>> /\ outs = <<>> THEN <<>>
    ELSE IF outs = <<>> THEN VStack(ins)
    ELSE IF ins = <<>> THEN VStack(outs)
    ELSE VStack(MixLoop(outs, VStack(ins), 0))

\* one recording: the collectors hold ins and outs when mix_audio_buffers runs
Mix(ins, outs) ==
    /\ ~mixDone
    /\ mixIn' = ins
    /\ mixOut' = outs
    /\ mixResult' = MixAudioBuffers(ins, outs)
    /\ mixDone' = TRUE
    /\ UNCHANGED othersOfMixer

MixerNext ==
    \E ins, outs \in BufferLists : Mix(ins, outs)

MixerSpec == Init /\ [][MixerNext]_vars

(***************************************************************************)
(* Properties                                                              *)
(***************************************************************************)

\* C1: when stop() has returned for a session that was Active with both sinks
\* attached, finish() was called exactly once on each sink during that stop
\* (stop's own loop and the multiplexer's audio_streamer_did_finish together)
\* and the session is Stopped.
C1_FinishOncePerStop ==
    (last.op = "stop" /\ last.res = "returned" /\ last.from = "Active" /\ last.att = Sinks
        /\ \A t \in Tasks : tasks[t].pc = "idle")
    => /\ state = "Stopped"
       /\ \A s \in Sinks : finishCalls[s] = last.base[s] + 1

\* C2: start is accepted only from Idle or Stopped, pause only from Active, resume
\* only from Paused, stop only from Active or Paused; a call made in any other
\* state ends with InvalidStateError and leaves the session as it was.
C2_LifecycleGuards ==
    [][LET Claimed(o) == CASE o = "start" -> {"Idle", "Stopped"}
                           [] o = "pause" -> {"Active"}
                           [] o = "resume" -> {"Paused"}
                           [] o = "stop" -> {"Active", "Paused"}
       IN \A t \in Tasks, o \in {"start", "pause", "resume", "stop"} :
             /\ (tasks[t].pc = "idle" /\ tasks'[t].pc # "idle" /\ tasks'[t].op = o)
                   => state \in Claimed(o)
             /\ (last' # last /\ last'.op = o /\ last'.res = "invalid_state")
                   => /\ state \notin Claimed(o)
                      /\ UNCHANGED <<sessVars, sinkVars, obsVars>>]_vars

\* a refused start() on an Active session
C2_Witness == last.op = "start" /\ last.res = "invalid_state" /\ state = "Active"

\* C3: add_output and remove_output return normally only when called on an Active
\* or Paused session; in any other state they make no call on the sink.
C3_SinkCallsOnlyWhileRunning ==
    [][\A t \in Tasks :
          (CanInvoke(t) /\ nCalls' = nCalls + 1 /\ state \notin {"Active", "Paused"})
             => UNCHANGED <<sessOutputs, muxOutputs, configureCalls, finishCalls>>]_vars

\* C4: configure() is called at most once on each sink, and a sink that had
\* process() called was configured before.
C4_ConfigureOnce ==
    /\ \A s \in Sinks : configureCalls[s] <= 1
    /\ \A c \in processCalls : configureCalls[c[1]] >= 1

\* C5: process() is never called on a sink after finish() was called on it.
C5_NoProcessAfterFinish == lateProcess = {}

\* C6: a stop() that was accepted always eventually returns with the session
\* Stopped, also when nobody reads the StreamOutput's stream.
C6_StopReturns == (state = "Stopping") ~> (state = "Stopped")

\* C7: a start() whose producer fails takes the session from Starting to Error:
\* every registered observer is called with Error, the error handler is
\* invoked, the exception is raised; a start() in progress keeps the session
\* Starting until then, so Active is never entered.
C7_FailedStart ==
    [][\A t \in Tasks :
          /\ tasks[t].pc = "start_wait"
                => state = "Starting" /\ tasks[t].from \in {"Idle", "Stopped"}
          /\ (tasks[t].pc = "start_wait" /\ tasks'[t].pc = "idle" /\ last'.res # "returned")
                => /\ state' = "Error"
                   /\ last'.op = "start" /\ last'.res = "raised"
                   /\ \A o \in Range(observers) : notified'[o] = "Error"
                   /\ handlerSet => handlerCalls' = handlerCalls + 1]_vars

\* a failed start() with two observers and the error handler registered
C7_Witness ==
    /\ state = "Error" /\ last.op = "start" /\ last.res = "raised"
    /\ Len(observers) = 2 /\ \A o \in Observers : notified[o] = "Error"
    /\ handlerCalls = 1

\* C8: once the session is in Error its state never changes again.
C8_ErrorIsTerminal == [][state = "Error" => state' = "Error"]_vars

\* a stop() made on a session in Error, and refused
C8_Witness == state = "Error" /\ last.op = "stop" /\ last.res = "invalid_state"

\* C9: a buffer that reaches the multiplexer after pause() returned and before
\* resume() is called is dropped, with no process() call for it; one that reaches
\* it after resume() returned (and before the next pause()) is dispatched to the
\* sinks; pause() and resume() neither stop nor replace the recorder.
C9_PauseGate ==
    /\ [](\A b \in Buffers :
            /\ arrival[b] = "paused"
                  => fate[b].st = "dropped" /\ \A c \in processCalls : c[2] # b
            /\ arrival[b] = "resumed" => fate[b].st = "dispatched")
    /\ [][\A t \in Tasks :
            (tasks[t].op \in {"pause", "resume"} \/ tasks'[t].op \in {"pause", "resume"})
               => UNCHANGED <<gen, isRecording>> /\ isRecording]_vars

\* one buffer dropped while paused, and a later one processed after resume()
C9_Witness ==
    \E b1, b2 \in Buffers :
        /\ arrival[b1] = "paused" /\ fate[b1].st = "dropped"
        /\ arrival[b2] = "resumed" /\ \E c \in processCalls : c[2] = b2

\* C10: a sink whose process() raises does not keep the other sinks of the
\* snapshot from being given the buffer, and the failure changes neither the
\* multiplexer's sinks, the session's sinks, nor the session state.
C10_FailureIsolated ==
    /\ [](\A b \in Buffers :
            (fate[b].st = "dispatched"
               /\ \A g \in Gens : \A i \in 1..Len(ready[g]) : ready[g][i].b # b)
            => \A s \in Range(fate[b].snap) : \E c \in processCalls : c[1] = s /\ c[2] = b)
    /\ [][(\E c \in processCalls' \ processCalls : c[3] = "raised")
            => UNCHANGED <<muxOutputs, sessOutputs, state>>]_vars

\* the callback sink raised for a buffer and the stream sink, behind it in the
\* snapshot, still processed that buffer
C10_Witness ==
    \E b \in Buffers :
        /\ fate[b].snap = <<"A", "B">>
        /\ <<"A", b, "raised">> \in processCalls
        /\ <<"B", b, "ok">> \in processCalls
        /\ Contains(muxOutputs, "A")

\* C11: for every process() call that raised, handle_error() was called on the
\* failing sink for that failure, and handle_error() is called on no sink that
\* did not fail.
C11_ErrorToFailingSink ==
    /\ \A c \in processCalls :
          (c[3] = "raised"
             /\ \A g \in Gens : \A i \in 1..Len(ready[g]) : ready[g][i].b # c[2])
          => <<c[1], c[2]>> \in handleErrorCalls
    /\ \A h \in handleErrorCalls : <<h[1], h[2], "raised">> \in processCalls

\* C12: on every sink the process() calls for the buffers of one recorder begin
\* in the order the recorder emitted them: when process() begins for a buffer,
\* no later buffer of the same recorder has been given to that sink.
C12_EmissionOrder ==
    [][\A c \in processCalls' \ processCalls :
          \A d \in processCalls :
             (d[1] = c[1] /\ bufGen[d[2]] = bufGen[c[2]]) => d[2] < c[2]]_vars

\* the callback sink was given two buffers of one recorder
C12_Witness ==
    \E b1, b2 \in Buffers :
        /\ b1 < b2 /\ bufGen[b1] = bufGen[b2] /\ bufGen[b1] > 0
        /\ \E r1, r2 \in {"ok", "raised"} :
              <<"A", b1, r1>> \in processCalls /\ <<"A", b2, r2>> \in processCalls
        /\ Contains(fate[b2].snap, "A")

\* C13: after n enqueues with no dequeue in between (and no clear or finish), the
\* queue holds min(n, capacity) items, and dequeuing returns the last
\* min(n, capacity) enqueued items in their enqueue order.
C13_KeepsNewest ==
    (qCap > 0 /\ ~qMixed /\ ~qCleared /\ ~qFinished)
    => LET kept == Min(nEnq, qCap)
       IN /\ Len(qBuffers) + Len(qOut) = kept
          /\ qOut \o qBuffers = [i \in 1..kept |-> nEnq - kept + i]

\* more enqueues than the capacity, then everything dequeued
C13_Witness ==
    /\ qCap = 2 /\ nEnq = 4 /\ ~qMixed /\ ~qCleared /\ ~qFinished
    /\ qBuffers = <<>> /\ qOut = <<3, 4>>

\* C14: after n enqueues (no dequeue in between, no clear or finish) the
\* statistic dropped_buffers is max(0, n - capacity), whether or not the async
\* stream is being read.
C14_DroppedCount ==
    (qCap > 0 /\ ~qMixed /\ ~qCleared /\ ~qFinished /\ ~qReset)
    => qDropped = Max(0, nEnq - qCap)

\* C15: every connection is sent the format header at most once, and no audio
\* packet is sent to a connection that has not been sent the header before.
C15_HeaderOnceAndFirst ==
    \A c \in Conns :
        /\ Cardinality({i \in 1..Len(wire[c]) : wire[c][i] = Header}) <= 1
        /\ \A i \in 1..Len(wire[c]) :
              wire[c][i] \in {Audio(n) : n \in Packets}
                 => \E j \in 1..(i - 1) : wire[c][j] = Header

\* C16: a broadcast_buffer call in which writes failed still returns normally;
\* while it writes, every client of the set has been written to, has failed or
\* is still to come (a failure does not end the loop); once it has returned,
\* each client it wrote to has the packet, each client whose write failed is
\* out of the client set with its writer closed, and a client that was sent an
\* earlier packet and is still served and reachable was sent this one too.
C16_WriteFailureIsolated ==
    /\ \A n \in Packets :
          (bcLog[n].failed # {} /\ ops["bc"].data # Audio(n)) => bcLog[n].res = "returned"
    /\ \A n \in Packets :
          (ops["bc"].pc = "write" /\ ops["bc"].data = Audio(n))
          => ops["bc"].todo \cup bcLog[n].sent \cup bcLog[n].failed = srvClients
    /\ \A n \in Packets :
          bcLog[n].res = "returned"
          => /\ \A c \in bcLog[n].sent :
                   \E i \in 1..Len(wire[c]) : wire[c][i] = Audio(n)
             /\ \A c \in bcLog[n].failed : c \notin srvClients /\ wclosed[c] # "open"
    /\ \A c \in srvClients, n \in Packets :
          (bcLog[n].res = "returned" /\ ~broken[c] /\ hpc[c] = "serve"
             /\ \E m \in Packets : m < n /\ c \in bcLog[m].sent)
          => c \in bcLog[n].sent

\* a broadcast in which the write to one client failed and the other client
\* was sent the packet, followed by another packet to the other client
C16_Witness ==
    \E c, d \in Conns :
        /\ bcLog[1].res = "returned" /\ bcLog[1].failed = {c} /\ bcLog[1].sent = {d}
        /\ bcLog[2].res = "returned" /\ bcLog[2].sent = {d}

\* C17: when stop() has returned, every connection that was in the client set
\* when stop() was called and could be written to has been sent the end packet
\* and is closed, the client set is empty, and the server is not running (so
\* that broadcast_buffer raises).
C17_StopClosesAll ==
    stopDone
    => /\ \A c \in stopAt :
             /\ wclosed[c] # "open"
             /\ wclosed[c] = "stop" => wire[c] # <<>> /\ wire[c][Len(wire[c])] = EndPacket
       /\ srvClients = {}
       /\ ~srvRunning

\* C18: a client that connected when only the format header had been written
\* has yielded one buffer for each audio packet it has read, in order and with
\* the packet's frame count, has yielded nothing for a keepalive, and ends only
\* on the end packet.
C18_OneBufferPerPacket ==
    (cpc \in {"connected", "ended"} /\ connAt = 1)
    => /\ yielded = AudioFrames(SubSeq(cstream, 2, rpos))
       /\ cpc = "ended" => cstream[rpos].type = "E"

\* C19: a connect() that met a wrong magic, an unknown version or a header cut
\* short has raised StreamingProtocolError and left the client not connected.
C19_ProtocolErrorOnBadHeader ==
    (cpc = "failed" /\ cstream[1].kind # "good")
    => connErr = "StreamingProtocolError" /\ ~isConnected

\* C20: the format header is 19 bytes long, and an audio packet is 13 bytes
\* plus frame_count * channels * (bit_depth / 8) bytes of samples, the size the
\* client computes for its read.
C20_PacketSizes ==
    \A i \in 1..Len(cstream) :
        /\ (cstream[i].type = "H" /\ cstream[i].kind = "good") => cstream[i].size = 19
        /\ cstream[i].type = "A"
           => /\ cstream[i].size = 13 + cstream[i].frames * cfmt.ch * (cfmt.bits \div 8)
              /\ cstream[i].size = 13 + ClientDataSize(cfmt, cstream[i].frames)

\* C21: once finish() has closed the file sink, the file is never opened (and
\* truncated) again and no further buffer is written to it.
C21_NoReopen ==
    [][fClosed => (fOpens' = fOpens /\ fWrites' = fWrites)]_vars

\* C22: once a write of the sink has met an I/O error, no further buffer is
\* written, and the process() call that met the error, like every process()
\* call begun afterwards, ends with OutputProcessingFailed.
C22_FailedIsPermanent ==
    /\ fErrAt >= 0 => fWrites = fErrAt
    /\ \A t \in Workers :
          (fres[t].io = "error" \/ fres[t].late) => fres[t].res = "OutputProcessingFailed"

\* C23: every process() call on the file sink eventually returns, also when a
\* second call is made while the first one's write is still in the executor.
C23_ProcessReturns ==
    \A t \in Workers : (fpc[t] # "idle") ~> (fpc[t] = "idle")

\* C24: no add_buffer call raises, and an add_buffer call whose conversion
\* failed has increased conversion_errors by one, appended no buffer and left
\* total_buffers_added and total_frames as they were.
C24_AddNeverRaises ==
    [][nAdd' = nAdd + 1
       => /\ ~cLast'.raised
          /\ cLast'.failed
             => /\ cErrors' = cErrors + 1
                /\ \A i \in 1..Len(cBuffers') : cBuffers'[i].id # nAdd'
                /\ cAdded' = cAdded
                /\ cCached' = cCached]_vars

\* C25: the collector holds at most max_buffers buffers, and they are the most
\* recently converted ones, in arrival order; a successful add made at the
\* limit removes the oldest stored buffer and nothing else.
C25_KeepsMostRecent ==
    [][/\ Len(cBuffers') <= cMax'
       /\ \E k \in 0..Len(cConverted') :
             [i \in 1..Len(cBuffers') |-> cBuffers'[i].id]
                = SubSeq(cConverted', k + 1, Len(cConverted'))
       /\ (nAdd' = nAdd + 1 /\ ~cLast'.failed /\ Len(cBuffers) = cMax)
          => SubSeq(cBuffers', 1, Len(cBuffers') - 1) = Tail(cBuffers)]_vars

\* three buffers converted into a collector of two: the first one is gone
C25_Witness ==
    /\ cMax = 2
    /\ Len(cConverted) = 3
    /\ Len(cBuffers) = 2
    /\ cBuffers[1].id = cConverted[2]
    /\ cBuffers[2].id = cConverted[3]

\* C26: total_frames is the sum of the frame counts of the buffers the
\* collector stores (duration is total_frames over the target sample rate, so
\* it is the stored duration exactly when total_frames is the stored sum).
C26_TotalFramesIsStored ==
    cCached = SumFrames(cBuffers)

\* C27: the items held by the priority queue are in non-increasing priority
\* order, in insertion order inside one priority, and an insertion into a queue
\* holding max_size items removes the oldest of the items of the lowest
\* priority held, and no other.
C27_PriorityOrder ==
    [][/\ \A i, j \in 1..Len(pqBuffers') :
             i < j => \/ pqBuffers'[i].prio > pqBuffers'[j].prio
                      \/ /\ pqBuffers'[i].prio = pqBuffers'[j].prio
                         /\ pqBuffers'[i].id < pqBuffers'[j].id
       /\ (nPEnq' = nPEnq + 1 /\ Len(pqBuffers) >= pqMax)
          => \E i \in 1..Len(pqBuffers) :
                /\ \A j \in 1..Len(pqBuffers) :
                      /\ pqBuffers[j].prio >= pqBuffers[i].prio
                      /\ pqBuffers[j].prio = pqBuffers[i].prio
                         => pqBuffers[j].id >= pqBuffers[i].id
                /\ {pqBuffers'[j].id : j \in 1..Len(pqBuffers')}
                      = ({pqBuffers[j].id : j \in 1..Len(pqBuffers)} \ {pqBuffers[i].id})
                           \cup {nPEnq'}]_vars

\* two items of one priority are held by a queue of two when a third of that
\* priority is inserted: the first is evicted, the other two stay in order
C27_Witness ==
    /\ pqMax = 2
    /\ \E p \in Priorities :
          /\ pqEvicted = {[id |-> 1, prio |-> p]}
          /\ pqBuffers = <<[id |-> 2, prio |-> p], [id |-> 3, prio |-> p]>>

\* C28: a try_enqueue call returns False exactly when is_full held, and then
\* head, tail and the slots are as before; and, as long as clear() is not
\* called, the values returned by try_dequeue followed by the values still
\* between head and tail are the values try_enqueue accepted, in order.
C28_RingLosesNothing ==
    [][/\ nREnq' = nREnq + 1
          => /\ (rLast'.res = 0) <=> IsFull(rCap, rHead, rTail)
             /\ rLast'.res = 0 => (rHead' = rHead /\ rTail' = rTail /\ rSlots' = rSlots)
       /\ ~rCleared'
          => rReturned' \o RingContents(rSlots', rCap', rHead', rTail') = rAccepted'
       ]_vars

\* a ring of three slots refused the third value while full, took the fourth
\* after a dequeue (the tail wrapped round), and gave back all it accepted
C28_Witness ==
    /\ rCap = 3
    /\ ~rCleared
    /\ nREnq = 4
    /\ rAccepted = <<1, 2, 4>>
    /\ rReturned = <<1, 2, 4>>

\* C29: the buffers the audio callback has handed off and the multiplexer has
\* not yet taken up stay within a capacity: they are never all the buffers the
\* callback emitted once it has emitted MaxBuffers of them (a bounded hand-off
\* of any smaller capacity would have displaced the oldest by then).
C29_HandOffBounded ==
    \A g \in Gens :
        Cardinality({i \in 1..Len(ready[g]) : ready[g][i].k = "recv"}) < MaxBuffers

\* C30: when cleanup() has returned, the kit tracks no capture and no playback
\* session, and every session that was Active or Paused when that cleanup()
\* began is Stopped.
C30_CleanupStopsAll ==
    kpc = "returned"
       => /\ kCapture = {}
          /\ kPlayback = {}
          /\ \A s \in SessionIds :
                kAtBegin[s] \in StopAccepts => kSessions[s].state = "Stopped"

\* C40: an add_buffer call whose conversion fails leaves the list of stored
\* buffers as it was before the call, also at max_buffers.
C40_FailedAddKeepsBuffers ==
    [][(nAdd' = nAdd + 1 /\ cLast'.failed) => cBuffers' = cBuffers]_vars

\* C39: no audio packet is written to a connection after the end packet has
\* been written to it.
C39_NoAudioAfterEnd ==
    \A c \in Conns :
        \A i, j \in 1..Len(wire[c]) :
            (wire[c][i] = EndPacket /\ i < j) => wire[c][j] \notin {Audio(n) : n \in Packets}

\* C36: whenever no session call is in progress, the multiplexer's pause flag
\* is set if the session state is Paused and clear if it is Active (so that an
\* Active session delivers the buffers that arrive).
C36_PauseFlagFollowsState ==
    (\A t \in Tasks : tasks[t].pc = "idle")
    => /\ state = "Paused" => isPaused
       /\ state = "Active" => ~isPaused

\* C37: whenever no session call is in progress, the session's sink list and
\* the multiplexer's sink list are the same list, and no sink is in it twice.
C37_SinkListsAgree ==
    (\A t \in Tasks : tasks[t].pc = "idle")
    => /\ sessOutputs = muxOutputs
       /\ \A i, j \in 1..Len(sessOutputs) : sessOutputs[i] = sessOutputs[j] => i = j

\* C38: whenever no kit call is in progress, no session of the capture
\* registry is in state Error or Stopped.
C38_RegistryHoldsLiveSessions ==
    KitIdle => \A s \in kCapture : kSessions[s].state \notin {"Error", "Stopped"}

\* C34: a session does not stay in Stopping: whenever no call is in progress
\* (every stop() made has returned or raised), no session is in state Stopping.
C34_StopEndsStoppedOrError ==
    KitIdle => \A s \in SessionIds : kSessions[s].state # "Stopping"

\* C33: the statistic current_size is the number of buffers the queue holds.
C33_CurrentSizeIsCount ==
    qCap > 0 => qStats.current_size = Len(qBuffers)

\* C32: negotiating a format with itself returns that format, whatever the
\* priority, and the conversion complexity of a format to itself is 0.
C32_SameFormatRoundTrip ==
    (negPrio # "none" /\ negSrc = negDst)
    => /\ negResult = negSrc
       /\ negComplexity = 0

\* a 24-bit integer format negotiated with itself for quality
C32_Witness ==
    /\ negPrio = "Quality"
    /\ negSrc = MakeFormat(48000, 2, 24, TRUE, FALSE)
    /\ negDst = negSrc
    /\ negResult = negSrc

\* C35: stream() yields in priority order: when it yields a buffer while no
\* enqueue() call is in progress, no buffer that has been enqueued and is still
\* to be yielded (held in the list or waiting on the asyncio queue) has a
\* higher priority.
C35_StreamInPriorityOrder ==
    [][(pqRead' = pqRead + 1 /\ pqOut[pqRead'].id # 0 /\ \A t \in Enqueuers : ppc[t] = "idle")
       => /\ \A i \in (pqRead' + 1)..Len(pqOut) :
                pqOut[i].id # 0 => pqOut[i].prio <= pqOut[pqRead'].prio
          /\ \A i \in 1..Len(pqBuffers) :
                pqBuffers[i].prio <= pqOut[pqRead'].prio]_vars

\* C31: with buffers in both collectors the mix has the frames of the output
\* collector, frame j being half the output frame j plus half the input frame
\* j, or half the output frame alone past the end of the input; with buffers
\* in one collector only, the result is that collector's concatenation.
C31_MixIsHalfSum ==
    mixDone
    => LET input == VStack(mixIn)
           output == VStack(mixOut)
       IN IF mixIn # <<>> /\ mixOut # <<>>
          THEN /\ Len(mixResult) = Len(output)
               /\ \A j \in 1..Len(output) :
                     mixResult[j] = IF j <= Len(input)
                                    THEN Half(output[j]) + Half(input[j])
                                    ELSE Half(output[j])
          ELSE /\ mixIn # <<>> => mixResult = input
               /\ mixOut # <<>> => mixResult = output

\* two output buffers of one and two frames over an input of two frames: the
\* input runs on into the second output buffer and ends before its last frame
C31_Witness ==
    /\ mixDone
    /\ mixIn = <<<<4, 4>>>>
    /\ mixOut = <<<<2>>, <<4, 2>>>>
    /\ mixResult = <<3, 4, 1>>

====
